---- MODULE Spec2Model ----
(***************************************************************************)
(* A model of the automaton execution engine of machine.js: the DFA        *)
(* (Machine.DFA, epsilon-aware variant) and the DPDA (Machine.DPDA).       *)
(* One machine instance is modelled; `kind` says which class built it.     *)
(* JavaScript strings are modelled as TLA+ strings, a tape as the sequence *)
(* of its characters, the stack as a sequence whose last element is the    *)
(* top.                                                                    *)
(***************************************************************************)
EXTENDS Integers, Sequences, FiniteSets, TLC

VARIABLES kind, attribs, allowEpsilonTransitions, transitionFunction, tape,
          pointerPosition, currentState, stepCount, isHalted, isAccepted,
          stack, acceptanceMode, initialStackSymbol, stackAlphabet, alphabet,
          setterCalls, last

vars == <<kind, attribs, allowEpsilonTransitions, transitionFunction, tape,
          pointerPosition, currentState, stepCount, isHalted, isAccepted,
          stack, acceptanceMode, initialStackSymbol, stackAlphabet, alphabet,
          setterCalls, last>>

---------------------------------------------------------------------------
(* Bounds of the model. *)

\* an Alphabet on its own: longest chars string it is built from
MaxChars == 3
\* most calls of the setters and of halt(), stackPop() made directly by the
\* client in one behaviour
MaxSetterCalls == 1
\* longest input string given to setInputString
MaxLen == 2
\* most transitions registered by addTransition calls
MaxTransitions == 1
\* cap on the step counter (the engine's counter is unbounded)
MaxSteps == 2
\* largest maxSteps argument given to run
MaxRun == 2
\* runs from the initial configuration: longest input string, most
\* transitions of the machine, cap on the step counter
MaxInput == 4
MaxMachine == 3
MaxRunSteps == 5
\* configuration calls: deepest stack that stackPush is called on
MaxStack == 2

---------------------------------------------------------------------------
(* Collaborators: alphabets, states, conditions, commands. *)

\* JavaScript's undefined / an absent field
Undefined == "undefined"
\* JavaScript's null (no acceptance mode, no command)
Null == "null"

\* Machine.Alphabet.EPSILON_STRING, the reserved epsilon symbol
EPSILON_STRING == "epsilon"
\* Machine.Command.STACK_CHANGE
STACK_CHANGE == "stackChange"
\* Machine.DPDA.ACCEPT_BY_STATE, Machine.DPDA.ACCEPT_BY_STACK
ACCEPT_BY_STATE == "0"
ACCEPT_BY_STACK == "1"

\* the state table: q0 is the initial state, q1 the accepting one
States == {"q0", "q1"}
InitialState == "q0"
getIsAccepting(state) == state = "q1"

\* the input alphabet of the machine of each kind
Alphabet(k) == IF k = "DFA" THEN {"0", "1"} ELSE {"a", "b"}
\* the stack alphabet a DPDA is constructed with (attribs.stackAlphabet)
StackAlphabet == {"Z", "a"}

\* Alphabet.getBlank() of the stack alphabet of the construction
getBlank == "Z"

\* the characters of the strings used as stack arguments
StringChars(str) ==
    CASE str = "Z"  -> <<"Z">>
      [] str = "a"  -> <<"a">>
      [] str = "aa" -> <<"a", "a">>
      [] str = "Za" -> <<"Z", "a">>
      [] str = "x"  -> <<"x">>
      [] OTHER      -> <<str>>

\* Alphabet.contains(symbol), on the set of the alphabet's symbols
contains(alphabetSet, symbol) == symbol \in alphabetSet

\* Alphabet.isCompatibleWith(str): every character of str is in the alphabet
isCompatibleWith(alphabetSet, str) ==
    \A i \in DOMAIN StringChars(str) : contains(alphabetSet, StringChars(str)[i])

\* mutant of Alphabet_new: the last character of chars is left out
Alphabet_new_skipsLast(a) ==
    [blank |-> a.blank,
     alphabetSet |-> {a.chars[i] : i \in 1..(Len(a.chars) - 1)}]

\* new Machine.Alphabet({blank, chars}): the instance, with the blank symbol
\* and the set of the characters of the string chars
Alphabet_new(a) ==
    [blank |-> a.blank,
     alphabetSet |-> {a.chars[i] : i \in DOMAIN a.chars}]

\* Alphabet.contains(symbol) and Alphabet.getBlank() of an instance
Alphabet_contains(instance, symbol) == contains(instance.alphabetSet, symbol)

Alphabet_getBlank(instance) == instance.blank

\* Machine.Alphabet.TALLY_NOTATION, the predefined alphabet of 0 and 1
TallyAttribs == [blank |-> "0", chars |-> <<"0", "1">>]

TALLY_NOTATION == Alphabet_new(TallyAttribs)

\* new Machine.Condition({state, character, stackElement})
Condition(state, character, stackElement) ==
    [state |-> state, character |-> character, stackElement |-> stackElement]

\* new Machine.Command({state, action, argument})
Command(state, action, argument) ==
    [state |-> state, action |-> action, argument |-> argument]

\* the value null where a command is expected (no command registered)
NullCommand == Command(Null, Null, Null)
\* the value undefined where a condition or a command is expected (the step
\* built none)
NoCondition == Condition(Undefined, Undefined, Undefined)
NoCommand == Command(Undefined, Undefined, Undefined)

\* all input strings of length at most n over the symbols of an alphabet
Strings(symbols, n) == UNION {[1..k -> symbols] : k \in 0..n}

---------------------------------------------------------------------------
(* TransitionFunction: a mapping from conditions to commands. *)

\* TransitionFunction.getCommand(condition): the command, or null
getCommand(tf, condition) ==
    IF condition \in DOMAIN tf THEN tf[condition] ELSE NullCommand

\* TransitionFunction.hasEpsilonTransition(state)
hasEpsilonTransition(tf, state) ==
    \E c \in DOMAIN tf : c.state = state /\ c.character = EPSILON_STRING

\* TransitionFunction.getEpsilonTransitionCondition(state)
getEpsilonTransitionCondition(tf, state) ==
    CHOOSE c \in DOMAIN tf : c.state = state /\ c.character = EPSILON_STRING

\* TransitionFunction.add(condition, command): the error it fails with, or
\* "none"
addError(tf, condition, command) ==
    IF condition \in DOMAIN tf /\ tf[condition] # command
    THEN "DuplicateTransitionError"
    ELSE IF /\ condition.character = EPSILON_STRING
            /\ condition \notin DOMAIN tf
            /\ hasEpsilonTransition(tf, condition.state)
    THEN "MultipleEpsilonTransitionsError"
    ELSE "none"

\* TransitionFunction.add(condition, command): the function afterwards
add(tf, condition, command) ==
    IF addError(tf, condition, command) # "none" THEN tf
    ELSE [c \in DOMAIN tf \cup {condition} |->
             IF c = condition THEN command ELSE tf[c]]

---------------------------------------------------------------------------
(* Tape and Stack. *)

\* Tape.length()
length(chars) == Len(chars)

\* Tape.charAt(i): the symbol at i; the epsilon sentinel at or past the end
charAt(chars, i) ==
    IF i + 1 \in DOMAIN chars THEN chars[i + 1] ELSE EPSILON_STRING

\* Stack.peek(): the top, or the epsilon sentinel when the stack is empty
peek(data) == IF data = <<>> THEN EPSILON_STRING ELSE data[Len(data)]

\* Stack.isEmpty()
isEmpty(data) == data = <<>>

\* Stack.push(str): str becomes the top, as one element
push(data, str) == Append(data, str)

\* Stack.pop(): the stack without its top (an empty stack stays empty)
pop(data) == IF data = <<>> THEN <<>> ELSE SubSeq(data, 1, Len(data) - 1)

---------------------------------------------------------------------------
(* The machine as a value: the fields of the instance, and the callbacks   *)
(* fired so far in the running call (events).                              *)

\* a callback invocation f.call(thisArg, args...): thisArg is bound to
\* `this` and args are the arguments the callback receives
Event(name, thisArg, args) == [name |-> name, this |-> thisArg, args |-> args]

fire(m, name, thisArg, args) ==
    [m EXCEPT !.events = Append(@, Event(name, thisArg, args))]

\* the instance as it stands, with no callback fired yet
Cur == [transitionFunction |-> transitionFunction, tape |-> tape,
        pointerPosition |-> pointerPosition, currentState |-> currentState,
        stepCount |-> stepCount, isHalted |-> isHalted,
        isAccepted |-> isAccepted, stack |-> stack,
        acceptanceMode |-> acceptanceMode,
        initialStackSymbol |-> initialStackSymbol,
        stackAlphabet |-> stackAlphabet,
        allowEpsilonTransitions |-> allowEpsilonTransitions,
        events |-> <<>>]

\* setPointerPosition(pointerPosition)
setPointerPosition(m, p) ==
    fire([m EXCEPT !.pointerPosition = p], "onPointerChange", p, <<>>)

\* BaseMachine.reset(): back to the initial state, step count 0, not halted
BaseMachine_reset(m) ==
    [m EXCEPT !.currentState = InitialState, !.stepCount = 0,
              !.isHalted = FALSE]

\* BaseMachine._init(attribs): the initial state is current, no step made,
\* not halted, no transition registered
BaseMachine_init ==
    [transitionFunction |-> << >>, tape |-> << >>, pointerPosition |-> 0,
     currentState |-> InitialState, stepCount |-> 0, isHalted |-> FALSE,
     isAccepted |-> FALSE, stack |-> << >>, acceptanceMode |-> Null,
     initialStackSymbol |-> Undefined, stackAlphabet |-> Undefined,
     allowEpsilonTransitions |-> TRUE,
     events |-> << >>]

---------------------------------------------------------------------------
(* Machine.DFA (the epsilon-aware variant). *)

\* the configuration options a DFA is constructed with: none, or
\* allowEpsilonTransitions
DFAAttribs == {"none", "allowEpsilonTransitions:false",
               "allowEpsilonTransitions:true"}

\* DFA._init(attribs): [m, threw]
DFA_init(a) ==
    LET m0 == BaseMachine_init
        m1 == IF a # "none"
              THEN [m0 EXCEPT !.allowEpsilonTransitions =
                                 (a = "allowEpsilonTransitions:true")]
              ELSE [m0 EXCEPT !.allowEpsilonTransitions = TRUE]
    IN  [m |-> [m1 EXCEPT !.isAccepted = FALSE, !.tape = << >>,
                          !.pointerPosition = 0],
         threw |-> "none"]

\* mutant of DFA_setInputString: the machine is reset for the new input
DFA_setInputString_resets(m, input) ==
    setPointerPosition([BaseMachine_reset(m) EXCEPT !.tape = input,
                                                    !.isAccepted = FALSE], 0)

\* DFA.setInputString(input)
DFA_setInputString(m, input) ==
    setPointerPosition([m EXCEPT !.tape = input], 0)

\* mutant of DFA_reset: the accepted flag is not cleared
DFA_reset_keepsAccepted(m) ==
    setPointerPosition(BaseMachine_reset(m), 0)

\* mutant of DFA_reset: the cursor is left where it is
DFA_reset_keepsCursor(m) ==
    [BaseMachine_reset(m) EXCEPT !.isAccepted = FALSE]

\* DFA.reset()
DFA_reset(m) ==
    [setPointerPosition(BaseMachine_reset(m), 0) EXCEPT !.isAccepted = FALSE]

\* mutant of DFA_haltDue: the cursor has to be past the end of the tape
DFA_haltDue_strict(m) ==
    /\ m.pointerPosition > length(m.tape)
    /\ hasEpsilonTransition(m.transitionFunction, m.currentState) = FALSE

\* the halting condition tested by DFA.halt()
DFA_haltDue(m) ==
    /\ m.pointerPosition >= length(m.tape)
    /\ hasEpsilonTransition(m.transitionFunction, m.currentState) = FALSE

\* mutant of DFA_halt: the epsilon transitions of the current state are not
\* looked at
DFA_halt_ignoresEpsilon(m) ==
    IF m.pointerPosition >= length(m.tape)
    THEN LET h == [m EXCEPT !.isHalted = TRUE]
             a == IF getIsAccepting(h.currentState) = TRUE
                  THEN fire([h EXCEPT !.isAccepted = TRUE], "onAccept",
                            h.currentState, <<h.stepCount, h.pointerPosition>>)
                  ELSE fire([h EXCEPT !.isAccepted = FALSE], "onReject",
                            h.currentState, <<h.stepCount, h.pointerPosition>>)
         IN  [m |-> fire(a, "onHalt", a.currentState,
                         <<a.stepCount, a.pointerPosition>>),
              ret |-> TRUE]
    ELSE [m |-> m, ret |-> FALSE]

\* mutant of DFA_halt: onHalt is fired before onAccept / onReject
DFA_halt_haltFirst(m) ==
    IF DFA_haltDue(m)
    THEN LET h == fire([m EXCEPT !.isHalted = TRUE], "onHalt", m.currentState,
                       <<m.stepCount, m.pointerPosition>>)
         IN  [m |-> IF getIsAccepting(h.currentState) = TRUE
                    THEN fire([h EXCEPT !.isAccepted = TRUE], "onAccept",
                              h.currentState, <<h.stepCount, h.pointerPosition>>)
                    ELSE fire([h EXCEPT !.isAccepted = FALSE], "onReject",
                              h.currentState, <<h.stepCount, h.pointerPosition>>),
              ret |-> TRUE]
    ELSE [m |-> m, ret |-> FALSE]

\* DFA.halt(): [m: the machine afterwards, ret: the value returned]
DFA_halt(m) ==
    IF DFA_haltDue(m)
    THEN LET h == [m EXCEPT !.isHalted = TRUE]
             a == IF getIsAccepting(h.currentState) = TRUE
                  THEN fire([h EXCEPT !.isAccepted = TRUE], "onAccept",
                            h.currentState, <<h.stepCount, h.pointerPosition>>)
                  ELSE fire([h EXCEPT !.isAccepted = FALSE], "onReject",
                            h.currentState, <<h.stepCount, h.pointerPosition>>)
         IN  [m |-> fire(a, "onHalt", a.currentState,
                         <<a.stepCount, a.pointerPosition>>),
              ret |-> TRUE]
    ELSE [m |-> m, ret |-> FALSE]

\* mutant of DFA_condition: a transition for the symbol under the cursor is
\* preferred to the epsilon transition
DFA_condition_symbolFirst(m) ==
    IF Condition(m.currentState, charAt(m.tape, m.pointerPosition), Undefined)
          \in DOMAIN m.transitionFunction
    THEN Condition(m.currentState, charAt(m.tape, m.pointerPosition), Undefined)
    ELSE IF hasEpsilonTransition(m.transitionFunction, m.currentState)
    THEN getEpsilonTransitionCondition(m.transitionFunction, m.currentState)
    ELSE Condition(m.currentState, charAt(m.tape, m.pointerPosition), Undefined)

\* the condition DFA.step() builds for the machine m
DFA_condition(m) ==
    IF hasEpsilonTransition(m.transitionFunction, m.currentState)
    THEN getEpsilonTransitionCondition(m.transitionFunction, m.currentState)
    ELSE Condition(m.currentState, charAt(m.tape, m.pointerPosition), Undefined)

\* the character DFA.step() takes as read (currentCharacter)
DFA_currentCharacter(m) ==
    IF hasEpsilonTransition(m.transitionFunction, m.currentState)
    THEN EPSILON_STRING
    ELSE charAt(m.tape, m.pointerPosition)

\* The results of step() are [m, ret, condition, command, threw, outcome]:
\* condition and command are those of the step (undefined when the step
\* built none), threw the message of the error thrown ("none": the call
\* returned), outcome the path taken: "idle" (already halted), "halt" (the
\* halting check at the start halted it), "reject" (no command), "move" (a
\* transition applied), "moveHalt" (a transition applied and the second
\* halting check halted it).

\* mutant of DFA_noTransition: the machine is marked rejected but not halted
DFA_noTransition_staysRunning(m, curState) ==
    LET r1 == [m EXCEPT !.isAccepted = FALSE]
        r2 == fire(r1, "onReject", curState, <<r1.stepCount, r1.pointerPosition>>)
    IN  fire(r2, "onHalt", curState, <<r2.stepCount, r2.pointerPosition>>)

\* DFA.step(), no command for the condition: halt and reject
DFA_noTransition(m, curState) ==
    LET r1 == [m EXCEPT !.isHalted = TRUE, !.isAccepted = FALSE]
        r2 == fire(r1, "onReject", curState, <<r1.stepCount, r1.pointerPosition>>)
    IN  fire(r2, "onHalt", curState, <<r2.stepCount, r2.pointerPosition>>)

\* DFA.step() on a machine that is not halted
DFA_stepRunning(m) ==
    LET m1 == [m EXCEPT !.stepCount = @ + 1]
        curState == m1.currentState
        h1 == DFA_halt(m1)
    IN  IF h1.ret = TRUE
        THEN [m |-> h1.m, ret |-> TRUE, condition |-> NoCondition,
              command |-> NoCommand, threw |-> "none", outcome |-> "halt"]
        ELSE
        LET currentCharacter == DFA_currentCharacter(m1)
            condition == DFA_condition(m1)
            command == getCommand(m1.transitionFunction, condition)
        IN  IF command = NullCommand
            THEN [m |-> DFA_noTransition(m1, curState), ret |-> TRUE,
                  condition |-> condition, command |-> NullCommand,
                  threw |-> "none", outcome |-> "reject"]
            ELSE
            LET m2 == IF currentCharacter # EPSILON_STRING
                      THEN setPointerPosition(m1, m1.pointerPosition + 1)
                      ELSE m1
                m3 == [m2 EXCEPT !.currentState = command.state]
                m4 == fire(m3, "onStep", condition,
                           <<command, m3.stepCount, m3.pointerPosition>>)
                h2 == DFA_halt(m4)
            IN  [m |-> h2.m, ret |-> h2.ret, condition |-> condition,
                 command |-> command, threw |-> "none",
                 outcome |-> IF h2.ret = TRUE THEN "moveHalt" ELSE "move"]

\* the tape indices DFA.step() passes to charAt: the cursor, when the
\* machine is not halted, the halting check at the start does not halt it
\* and the current state has no epsilon transition
DFA_tapeReads(m) ==
    IF m.isHalted = TRUE THEN {}
    ELSE LET m1 == [m EXCEPT !.stepCount = @ + 1]
         IN  IF DFA_halt(m1).ret = TRUE THEN {}
             ELSE IF hasEpsilonTransition(m1.transitionFunction, m1.currentState)
             THEN {}
             ELSE {m1.pointerPosition}

\* mutant of DFA_step: the step counter is incremented before the halted
\* test
DFA_step_countsWhenHalted(m) ==
    IF m.isHalted = TRUE
    THEN [m |-> [m EXCEPT !.stepCount = @ + 1], ret |-> TRUE,
          condition |-> NoCondition, command |-> NoCommand, threw |-> "none",
          outcome |-> "idle"]
    ELSE DFA_stepRunning(m)

\* DFA.step()
DFA_step(m) ==
    IF m.isHalted = TRUE
    THEN [m |-> m, ret |-> TRUE, condition |-> NoCondition,
          command |-> NoCommand, threw |-> "none", outcome |-> "idle"]
    ELSE DFA_stepRunning(m)

\* mutant of DFA_runFrom: the loop runs while i <= maxSteps
RECURSIVE DFA_runFrom_offByOne(_, _, _)
DFA_runFrom_offByOne(m, i, maxSteps) ==
    IF i <= maxSteps
    THEN LET s == DFA_step(m)
         IN  IF s.ret = TRUE
             THEN [m |-> s.m, ret |-> TRUE, steps |-> 1, threw |-> "none",
                   outcome |-> s.outcome]
             ELSE LET r == DFA_runFrom_offByOne(s.m, i + 1, maxSteps)
                  IN  [r EXCEPT !.steps = @ + 1,
                                !.outcome = IF r.steps = 0 THEN s.outcome ELSE @]
    ELSE [m |-> m, ret |-> FALSE, steps |-> 0, threw |-> "none",
          outcome |-> "none"]

\* DFA.run(maxSteps), from loop index i: [m, ret, steps, threw, outcome];
\* steps counts the calls of step() made, outcome is that of the last one
RECURSIVE DFA_runFrom(_, _, _)
DFA_runFrom(m, i, maxSteps) ==
    IF i < maxSteps
    THEN LET s == DFA_step(m)
         IN  IF s.ret = TRUE
             THEN [m |-> s.m, ret |-> TRUE, steps |-> 1, threw |-> "none",
                   outcome |-> s.outcome]
             ELSE LET r == DFA_runFrom(s.m, i + 1, maxSteps)
                  IN  [r EXCEPT !.steps = @ + 1,
                                !.outcome = IF r.steps = 0 THEN s.outcome ELSE @]
    ELSE [m |-> m, ret |-> FALSE, steps |-> 0, threw |-> "none",
          outcome |-> "none"]

\* DFA.run(maxSteps)
DFA_run(m, maxSteps) == DFA_runFrom(m, 0, maxSteps)

\* Machine.DFA.prototype.step of src/src/DFA.js, the variant of the DFA
\* without epsilon handling: one halting check, at the start of the step,
\* on the cursor alone; results as for DFA_step
PlainDFA_step(m) ==
    IF m.isHalted = TRUE
    THEN [m |-> m, ret |-> TRUE, condition |-> NoCondition,
          command |-> NoCommand, threw |-> "none", outcome |-> "idle"]
    ELSE
    LET m1 == [m EXCEPT !.stepCount = @ + 1]
        curState == m1.currentState
    IN  IF m1.pointerPosition >= length(m1.tape)
        THEN LET h == [m1 EXCEPT !.isHalted = TRUE]
                 a == IF getIsAccepting(curState) = TRUE
                      THEN fire([h EXCEPT !.isAccepted = TRUE], "onAccept",
                                curState, <<h.stepCount, h.pointerPosition>>)
                      ELSE fire([h EXCEPT !.isAccepted = FALSE], "onReject",
                                curState, <<h.stepCount, h.pointerPosition>>)
             IN  [m |-> fire(a, "onHalt", curState,
                             <<a.stepCount, a.pointerPosition>>),
                  ret |-> TRUE, condition |-> NoCondition,
                  command |-> NoCommand, threw |-> "none", outcome |-> "halt"]
        ELSE
        LET currentCharacter == charAt(m1.tape, m1.pointerPosition)
            condition == Condition(curState, currentCharacter, Undefined)
            command == getCommand(m1.transitionFunction, condition)
        IN  IF command = NullCommand
            THEN LET r1 == [m1 EXCEPT !.isHalted = TRUE, !.isAccepted = FALSE]
                     r2 == fire(r1, "onReject", curState,
                                <<r1.stepCount, r1.pointerPosition>>)
                 IN  [m |-> fire(r2, "onHalt", curState,
                                 <<r2.stepCount, r2.pointerPosition>>),
                      ret |-> TRUE, condition |-> condition,
                      command |-> NullCommand, threw |-> "none",
                      outcome |-> "reject"]
            ELSE
            LET m2 == setPointerPosition(m1, m1.pointerPosition + 1)
                m3 == [m2 EXCEPT !.currentState = command.state]
            IN  [m |-> fire(m3, "onStep", condition,
                            <<command, m3.stepCount, m3.pointerPosition>>),
                 ret |-> FALSE, condition |-> condition, command |-> command,
                 threw |-> "none", outcome |-> "move"]

\* Machine.DFA.prototype.run of src/src/DFA.js, from loop index i
RECURSIVE PlainDFA_runFrom(_, _, _)
PlainDFA_runFrom(m, i, maxSteps) ==
    IF i < maxSteps
    THEN LET s == PlainDFA_step(m)
         IN  IF s.ret = TRUE
             THEN [m |-> s.m, ret |-> TRUE, steps |-> 1, threw |-> "none",
                   outcome |-> s.outcome]
             ELSE LET r == PlainDFA_runFrom(s.m, i + 1, maxSteps)
                  IN  [r EXCEPT !.steps = @ + 1,
                                !.outcome = IF r.steps = 0 THEN s.outcome ELSE @]
    ELSE [m |-> m, ret |-> FALSE, steps |-> 0, threw |-> "none",
          outcome |-> "none"]

\* Machine.DFA.prototype.run(maxSteps) of src/src/DFA.js
PlainDFA_run(m, maxSteps) == PlainDFA_runFrom(m, 0, maxSteps)

\* mutant of DFA_addTransitionByStatesAndCharacter: a conflicting add
\* replaces the registered command
DFA_addTransitionByStatesAndCharacter_overwrites(m, conditionState, currentCharacter, transitionState) ==
    LET condition == Condition(conditionState, currentCharacter, Undefined)
        command == Command(transitionState, Undefined, Undefined)
    IN  [m |-> [m EXCEPT !.transitionFunction =
                   [c \in DOMAIN @ \cup {condition} |->
                       IF c = condition THEN command ELSE @[c]]],
         threw |-> "none"]

\* DFA.addTransitionByStatesAndCharacter(conditionState, currentCharacter,
\* transitionState): [m, threw]
DFA_addTransitionByStatesAndCharacter(m, conditionState, currentCharacter, transitionState) ==
    IF m.allowEpsilonTransitions = FALSE /\ currentCharacter = EPSILON_STRING
    THEN [m |-> m, threw |-> "Epsilon transitions not permitted in this machine"]
    ELSE LET condition == Condition(conditionState, currentCharacter, Undefined)
             command == Command(transitionState, Undefined, Undefined)
             err == addError(m.transitionFunction, condition, command)
         IN  IF err # "none" THEN [m |-> m, threw |-> err]
             ELSE [m |-> [m EXCEPT !.transitionFunction =
                                      add(@, condition, command)],
                   threw |-> "none"]

\* DFA.removeTransitionByStateLabelsAndCharacter(conditionStateLabel,
\* conditionCharacter): [m, threw]. The condition is built from the
\* identifier condiitonState, which is declared nowhere: evaluating it throws
\* a ReferenceError before anything is removed
DFA_removeTransitionByStateLabelsAndCharacter(m, conditionStateLabel, conditionCharacter) ==
    [m |-> m, threw |-> "ReferenceError"]

---------------------------------------------------------------------------
(* Machine.DPDA. *)

\* DPDA.stackPeek()
stackPeek(m) == peek(m.stack)

\* DPDA.stackPop(): [m, ret]; the popped element, undefined when the stack
\* was empty, is bound to `this` of onStackPop and returned
stackPop(m) ==
    LET c == IF isEmpty(m.stack) THEN Undefined ELSE peek(m.stack)
    IN  [m |-> fire([m EXCEPT !.stack = pop(@)], "onStackPop", c, <<>>),
         ret |-> c]

\* mutant of stackPush: the string is pushed without the alphabet check
stackPush_unchecked(m, str) ==
    [m |-> fire([m EXCEPT !.stack = push(@, str)], "onStackPush", str, <<>>),
     threw |-> "none"]

\* DPDA.stackPush(str): [m, threw]
stackPush(m, str) ==
    IF isCompatibleWith(m.stackAlphabet, str) = FALSE
    THEN [m |-> m, threw |-> "Invalid stack string."]
    ELSE [m |-> fire([m EXCEPT !.stack = push(@, str)], "onStackPush", str, <<>>),
          threw |-> "none"]

\* DPDA.setInitialStackSymbol(initialStackSymbol): [m, threw]
setInitialStackSymbol(m, symbol) ==
    IF contains(m.stackAlphabet, symbol) = FALSE
    THEN [m |-> m, threw |-> "Invalid initial stack character"]
    ELSE [m |-> [m EXCEPT !.initialStackSymbol = symbol], threw |-> "none"]

\* the initialStackSymbol option of the configuration object a
attribsInitialStackSymbol(a) ==
    CASE a = "initialStackSymbol:Z" -> "Z"
      [] a = "initialStackSymbol:a" -> "a"
      [] a = "initialStackSymbol:x" -> "x"
      [] OTHER -> Undefined

\* DPDA._init(attribs): [m, threw]; a throw leaves no instance
DPDA_init(a) ==
    LET m0 == [BaseMachine_init EXCEPT !.stackAlphabet = StackAlphabet,
                                       !.acceptanceMode = Null,
                                       !.isAccepted = FALSE, !.stack = << >>]
        s  == IF a # "none"
              THEN setInitialStackSymbol(m0, attribsInitialStackSymbol(a))
              ELSE setInitialStackSymbol(m0, getBlank)
    IN  IF s.threw # "none" THEN [m |-> m0, threw |-> s.threw]
        ELSE LET m1 == [s.m EXCEPT !.tape = << >>, !.pointerPosition = 0]
             IN  stackPush(m1, m1.initialStackSymbol)

\* DPDA.setInputString(input)
DPDA_setInputString(m, input) ==
    setPointerPosition([m EXCEPT !.tape = input], 0)

\* DPDA.setStackAlphabet(stackAlphabet): the field is assigned, the stack
\* and the initial stack symbol are not looked at
setStackAlphabet(m, alphabetSet) == [m EXCEPT !.stackAlphabet = alphabetSet]

\* DPDA.setStack(stack)
setStack(m, data) == [m EXCEPT !.stack = data]

\* DPDA.setAcceptanceMode(acceptanceMode)
setAcceptanceMode(m, mode) == [m EXCEPT !.acceptanceMode = mode]

\* setIsAccepted(isAccepted), of the DFA and of the DPDA
setIsAccepted(m, accepted) == [m EXCEPT !.isAccepted = accepted]

\* setTape(tape): the tape is replaced, the cursor stays where it is
setTape(m, chars) == [m EXCEPT !.tape = chars]

\* DFA.setAllowEpsilonTransitions(allowEpsilonTransitions)
setAllowEpsilonTransitions(m, allow) ==
    [m EXCEPT !.allowEpsilonTransitions = allow]

\* mutant of DPDA_reset: the stack is cleared and nothing is pushed
DPDA_reset_leavesEmpty(m) ==
    LET m1 == setPointerPosition(BaseMachine_reset(m), 0)
    IN  [m |-> [m1 EXCEPT !.stack = <<>>, !.isAccepted = FALSE],
         threw |-> "none"]

\* DPDA.reset(): [m, threw]; when the initial stack symbol is not
\* compatible with the stack alphabet, stackPush throws after the stack was
\* cleared and the accepted flag is not reached
DPDA_reset(m) ==
    LET m1 == setPointerPosition(BaseMachine_reset(m), 0)
        m2 == [m1 EXCEPT !.stack = <<>>]
        p  == stackPush(m2, m2.initialStackSymbol)
    IN  IF p.threw # "none" THEN [m |-> p.m, threw |-> p.threw]
        ELSE [m |-> [p.m EXCEPT !.isAccepted = FALSE], threw |-> "none"]

\* mutant of DPDA_haltDue: the top of the stack is not looked at
DPDA_haltDue_ignoresStack(m) ==
    /\ m.pointerPosition >= length(m.tape)
    /\ hasEpsilonTransition(m.transitionFunction, m.currentState) = FALSE

\* the halting condition tested by DPDA.halt()
DPDA_haltDue(m) ==
    /\ m.pointerPosition >= length(m.tape)
    /\ \/ hasEpsilonTransition(m.transitionFunction, m.currentState) = FALSE
       \/ stackPeek(m) = EPSILON_STRING

\* mutant of DPDA_halt: the empty stack is tested before the accepting state
DPDA_halt_stackFirst(m) ==
    IF DPDA_haltDue(m)
    THEN LET h == [m EXCEPT !.isHalted = TRUE]
             a == IF isEmpty(h.stack) = TRUE
                  THEN [fire([h EXCEPT !.isAccepted = TRUE], "onAccept",
                             h.currentState, <<h.stepCount, h.pointerPosition>>)
                        EXCEPT !.acceptanceMode = ACCEPT_BY_STACK]
                  ELSE IF getIsAccepting(h.currentState) = TRUE
                  THEN [fire([h EXCEPT !.isAccepted = TRUE], "onAccept",
                             h.currentState, <<h.stepCount, h.pointerPosition>>)
                        EXCEPT !.acceptanceMode = ACCEPT_BY_STATE]
                  ELSE fire([h EXCEPT !.isAccepted = FALSE], "onReject",
                            h.currentState, <<h.stepCount, h.pointerPosition>>)
         IN  [m |-> fire(a, "onHalt", a.currentState,
                         <<a.stepCount, a.pointerPosition>>),
              ret |-> "true"]
    ELSE [m |-> m, ret |-> Undefined]

\* DPDA.halt(): [m, ret]; ret is the JavaScript value returned: "true" when
\* it halts the machine and undefined (no return statement) otherwise
DPDA_halt(m) ==
    IF DPDA_haltDue(m)
    THEN LET h == [m EXCEPT !.isHalted = TRUE]
             a == IF getIsAccepting(h.currentState) = TRUE
                  THEN [fire([h EXCEPT !.isAccepted = TRUE], "onAccept",
                             h.currentState, <<h.stepCount, h.pointerPosition>>)
                        EXCEPT !.acceptanceMode = ACCEPT_BY_STATE]
                  ELSE IF isEmpty(h.stack) = TRUE
                  THEN [fire([h EXCEPT !.isAccepted = TRUE], "onAccept",
                             h.currentState, <<h.stepCount, h.pointerPosition>>)
                        EXCEPT !.acceptanceMode = ACCEPT_BY_STACK]
                  ELSE fire([h EXCEPT !.isAccepted = FALSE], "onReject",
                            h.currentState, <<h.stepCount, h.pointerPosition>>)
         IN  [m |-> fire(a, "onHalt", a.currentState,
                         <<a.stepCount, a.pointerPosition>>),
              ret |-> "true"]
    ELSE [m |-> m, ret |-> Undefined]

\* the condition DPDA.step() builds for the machine m
DPDA_condition(m) ==
    IF hasEpsilonTransition(m.transitionFunction, m.currentState)
    THEN getEpsilonTransitionCondition(m.transitionFunction, m.currentState)
    ELSE Condition(m.currentState, charAt(m.tape, m.pointerPosition),
                   stackPeek(m))

\* the results of DPDA.step() are as for the DFA; outcome "error":
\* stackPush threw, the call returned no value and ret means nothing

\* DPDA.step(), no command for the condition: halt and reject
DPDA_noTransition(m, curState) ==
    LET r1 == [m EXCEPT !.isHalted = TRUE, !.isAccepted = FALSE]
        r2 == fire(r1, "onReject", curState, <<r1.stepCount, r1.pointerPosition>>)
    IN  fire(r2, "onHalt", curState, <<r2.stepCount, r2.pointerPosition>>)

\* DPDA.step() on a machine that is not halted
DPDA_stepRunning(m) ==
    LET m1 == [m EXCEPT !.stepCount = @ + 1]
        curState == m1.currentState
        h1 == DPDA_halt(m1)
    IN  IF h1.ret = "true"
        THEN [m |-> h1.m, ret |-> TRUE, condition |-> NoCondition,
              command |-> NoCommand, threw |-> "none", outcome |-> "halt"]
        ELSE
        LET condition == DPDA_condition(m1)
            command == getCommand(m1.transitionFunction, condition)
        IN  IF command = NullCommand
            THEN [m |-> DPDA_noTransition(m1, curState), ret |-> TRUE,
                  condition |-> condition, command |-> NullCommand,
                  threw |-> "none", outcome |-> "reject"]
            ELSE
            LET m2 == IF condition.stackElement # EPSILON_STRING
                      THEN stackPop(m1).m ELSE m1
                p  == IF /\ command.action = STACK_CHANGE
                         /\ command.argument # EPSILON_STRING
                      THEN stackPush(m2, command.argument)
                      ELSE [m |-> m2, threw |-> "none"]
            IN  IF p.threw # "none"
                THEN [m |-> p.m, ret |-> FALSE, condition |-> condition,
                      command |-> command, threw |-> p.threw,
                      outcome |-> "error"]
                ELSE
                LET m3 == IF hasEpsilonTransition(p.m.transitionFunction,
                                                  curState) = FALSE
                          THEN setPointerPosition(p.m, p.m.pointerPosition + 1)
                          ELSE p.m
                    m4 == [m3 EXCEPT !.currentState = command.state]
                    h2 == DPDA_halt(m4)
                IN  IF h2.ret = "true"
                    THEN [m |-> h2.m, ret |-> TRUE, condition |-> condition,
                          command |-> command, threw |-> "none",
                          outcome |-> "moveHalt"]
                    ELSE [m |-> fire(m4, "onStep", condition,
                                     <<command, m4.stepCount,
                                       m4.pointerPosition>>),
                          ret |-> FALSE, condition |-> condition,
                          command |-> command, threw |-> "none",
                          outcome |-> "move"]

\* the tape indices DPDA.step() passes to charAt
DPDA_tapeReads(m) ==
    IF m.isHalted = TRUE THEN {}
    ELSE LET m1 == [m EXCEPT !.stepCount = @ + 1]
         IN  IF DPDA_halt(m1).ret = "true" THEN {}
             ELSE IF hasEpsilonTransition(m1.transitionFunction, m1.currentState)
             THEN {}
             ELSE {m1.pointerPosition}

\* DPDA.step()
DPDA_step(m) ==
    IF m.isHalted = TRUE
    THEN [m |-> m, ret |-> TRUE, condition |-> NoCondition,
          command |-> NoCommand, threw |-> "none", outcome |-> "idle"]
    ELSE DPDA_stepRunning(m)

\* DPDA.run(maxSteps), from loop index i: [m, ret, steps, threw, outcome];
\* an error thrown by a step ends the loop and leaves run
RECURSIVE DPDA_runFrom(_, _, _)
DPDA_runFrom(m, i, maxSteps) ==
    IF i < maxSteps
    THEN LET s == DPDA_step(m)
         IN  IF s.threw # "none"
             THEN [m |-> s.m, ret |-> FALSE, steps |-> 1, threw |-> s.threw,
                   outcome |-> s.outcome]
             ELSE IF s.ret = TRUE
             THEN [m |-> s.m, ret |-> TRUE, steps |-> 1, threw |-> "none",
                   outcome |-> s.outcome]
             ELSE LET r == DPDA_runFrom(s.m, i + 1, maxSteps)
                  IN  [r EXCEPT !.steps = @ + 1,
                                !.outcome = IF r.steps = 0 THEN s.outcome ELSE @]
    ELSE [m |-> m, ret |-> FALSE, steps |-> 0, threw |-> "none",
          outcome |-> "none"]

\* DPDA.run(maxSteps)
DPDA_run(m, maxSteps) == DPDA_runFrom(m, 0, maxSteps)

\* DPDA.addTransitionByStatesAndCharacter(conditionState, currentCharacter,
\* conditionStackElement, transitionStackString, transitionState): [m, threw]
DPDA_addTransitionByStatesAndCharacter(m, conditionState, currentCharacter, conditionStackElement, transitionStackString, transitionState) ==
    LET condition == Condition(conditionState, currentCharacter,
                               conditionStackElement)
        command == Command(transitionState, STACK_CHANGE, transitionStackString)
        err == addError(m.transitionFunction, condition, command)
    IN  IF err # "none" THEN [m |-> m, threw |-> err]
        ELSE [m |-> [m EXCEPT !.transitionFunction = add(@, condition, command)],
              threw |-> "none"]

\* DPDA.removeTransitionByStateLabelsAndCharacter(conditionStateLabel,
\* conditionCharacter, conditionStackElement): [m, threw]. As in the DFA:
\* the identifiers condiitonState and stackElement are declared nowhere
DPDA_removeTransitionByStateLabelsAndCharacter(m, conditionStateLabel, conditionCharacter, conditionStackElement) ==
    [m |-> m, threw |-> "ReferenceError"]

---------------------------------------------------------------------------
(* The state machine: the calls a client makes on the instance. *)

\* what the last call was and how it went: its name, the value it returned
\* (FALSE for a call that returns nothing or throws), the error it threw
\* ("none" when it returned) and, for step(), the path it took (for run,
\* the path of the last step() it made; "none" when it made none)
Observed(op, ret, threw, outcome) ==
    [op |-> op, ret |-> ret, threw |-> threw, outcome |-> outcome]

\* the fields of the instance become those of m
Commit(m) ==
    /\ transitionFunction' = m.transitionFunction
    /\ tape' = m.tape
    /\ pointerPosition' = m.pointerPosition
    /\ currentState' = m.currentState
    /\ stepCount' = m.stepCount
    /\ isHalted' = m.isHalted
    /\ isAccepted' = m.isAccepted
    /\ stack' = m.stack
    /\ acceptanceMode' = m.acceptanceMode
    /\ initialStackSymbol' = m.initialStackSymbol
    /\ stackAlphabet' = m.stackAlphabet
    /\ allowEpsilonTransitions' = m.allowEpsilonTransitions

\* the transitions offered to DFA.addTransitionByStatesAndCharacter:
\* <<conditionState, currentCharacter, transitionState>>
DFATransitions ==
    States \X (Alphabet("DFA") \cup {EPSILON_STRING}) \X States

\* the transitions offered to DPDA.addTransitionByStatesAndCharacter:
\* <<conditionState, currentCharacter, conditionStackElement,
\*   transitionStackString, transitionState>>
DPDATransitions ==
    { <<"q0", "a", "Z", "a", "q0">>,
      <<"q0", "a", "a", "aa", "q0">>,
      <<"q0", "a", "a", "a", "q0">>,
      <<"q0", "a", "Z", "Za", "q0">>,
      <<"q0", "b", "a", EPSILON_STRING, "q0">>,
      <<"q0", "b", "a", EPSILON_STRING, "q1">>,
      <<"q0", "b", "Z", "x", "q0">>,
      <<"q0", "a", EPSILON_STRING, "Z", "q1">>,
      <<"q0", EPSILON_STRING, "Z", EPSILON_STRING, "q1">>,
      <<"q0", EPSILON_STRING, "a", EPSILON_STRING, "q0">>,
      <<"q1", EPSILON_STRING, EPSILON_STRING, "a", "q1">> }

\* the configuration options a DPDA is constructed with, next to its
\* alphabets: none, or initialStackSymbol
DPDAAttribs == {"none", "initialStackSymbol:Z", "initialStackSymbol:a",
                "initialStackSymbol:x"}

\* new Machine.DFA(a) / new Machine.DPDA(a): [m, threw]
Constructed(k, a) == IF k = "DFA" THEN DFA_init(a) ELSE DPDA_init(a)

\* the instance is the machine m of kind k constructed with the options a
IsNew(k, a, m) ==
    /\ kind = k
    /\ attribs = a
    /\ transitionFunction = m.transitionFunction
    /\ tape = m.tape
    /\ pointerPosition = m.pointerPosition
    /\ currentState = m.currentState
    /\ stepCount = m.stepCount
    /\ isHalted = m.isHalted
    /\ isAccepted = m.isAccepted
    /\ stack = m.stack
    /\ acceptanceMode = m.acceptanceMode
    /\ initialStackSymbol = m.initialStackSymbol
    /\ stackAlphabet = m.stackAlphabet
    /\ allowEpsilonTransitions = m.allowEpsilonTransitions

\* new Machine.DFA({allowEpsilonTransitions}) / new Machine.DPDA({stackAlphabet,
\* initialStackSymbol: "Z"})
Init ==
    /\ \E k \in {"DFA", "DPDA"} :
          \E a \in IF k = "DFA"
                   THEN {"allowEpsilonTransitions:false",
                         "allowEpsilonTransitions:true"}
                   ELSE {"initialStackSymbol:Z"} :
             IsNew(k, a, Constructed(k, a).m)
    /\ alphabet = Null
    /\ setterCalls = 0
    /\ last = Observed("new", FALSE, "none", "none")

\* step()
DFAStepCall ==
    /\ kind = "DFA"
    /\ LET r == DFA_step(Cur)
       IN  /\ Commit(r.m)
           /\ last' = Observed("step", r.ret, r.threw, r.outcome)
    /\ UNCHANGED <<kind, attribs, alphabet, setterCalls>>

DPDAStepCall ==
    /\ kind = "DPDA"
    /\ LET r == DPDA_step(Cur)
       IN  /\ Commit(r.m)
           /\ last' = Observed("step", r.ret, r.threw, r.outcome)
    /\ UNCHANGED <<kind, attribs, alphabet, setterCalls>>

\* step(), while the step counter is below cap
DFAStepUpTo(cap) == (isHalted \/ stepCount < cap) /\ DFAStepCall

DPDAStepUpTo(cap) == (isHalted \/ stepCount < cap) /\ DPDAStepCall

DFAStep == DFAStepUpTo(MaxSteps)

DPDAStep == DPDAStepUpTo(MaxSteps)

\* run(maxSteps)
DFARunN(maxSteps) ==
    /\ kind = "DFA"
    /\ LET r == DFA_run(Cur, maxSteps)
       IN  /\ Commit(r.m)
           /\ last' = Observed("run", r.ret, r.threw, r.outcome)
    /\ UNCHANGED <<kind, attribs, alphabet, setterCalls>>

DPDARunN(maxSteps) ==
    /\ kind = "DPDA"
    /\ LET r == DPDA_run(Cur, maxSteps)
       IN  /\ Commit(r.m)
           /\ last' = Observed("run", r.ret, r.threw, r.outcome)
    /\ UNCHANGED <<kind, attribs, alphabet, setterCalls>>

\* run(maxSteps), while it leaves the step counter at cap or below
DFARunUpTo(cap) ==
    \E maxSteps \in 0..MaxRun :
       (isHalted \/ stepCount + maxSteps <= cap) /\ DFARunN(maxSteps)

DPDARunUpTo(cap) ==
    \E maxSteps \in 0..MaxRun :
       (isHalted \/ stepCount + maxSteps <= cap) /\ DPDARunN(maxSteps)

DFARun == DFARunUpTo(MaxSteps)

DPDARun == DPDARunUpTo(MaxSteps)

\* reset()
DFAReset ==
    /\ kind = "DFA"
    /\ Commit(DFA_reset(Cur))
    /\ last' = Observed("reset", FALSE, "none", "none")
    /\ UNCHANGED <<kind, attribs, alphabet, setterCalls>>

DPDAReset ==
    /\ kind = "DPDA"
    /\ LET r == DPDA_reset(Cur)
       IN  /\ Commit(r.m)
           /\ last' = Observed("reset", FALSE, r.threw, "none")
    /\ UNCHANGED <<kind, attribs, alphabet, setterCalls>>

\* the arguments given to setInputString
DFAInputs == Strings(Alphabet("DFA"), MaxLen)

DPDAInputs == Strings(Alphabet("DPDA"), MaxLen)

\* setInputString(input)
DFASetInputStringOf(input) ==
    /\ kind = "DFA"
    /\ Commit(DFA_setInputString(Cur, input))
    /\ last' = Observed("setInputString", FALSE, "none", "none")
    /\ UNCHANGED <<kind, attribs, alphabet, setterCalls>>

DPDASetInputStringOf(input) ==
    /\ kind = "DPDA"
    /\ Commit(DPDA_setInputString(Cur, input))
    /\ last' = Observed("setInputString", FALSE, "none", "none")
    /\ UNCHANGED <<kind, attribs, alphabet, setterCalls>>

DFASetInputString ==
    \E input \in DFAInputs : DFASetInputStringOf(input)

DPDASetInputString ==
    \E input \in DPDAInputs : DPDASetInputStringOf(input)

\* addTransitionByStatesAndCharacter(...), while the transition function
\* holds at most MaxTransitions transitions afterwards
AddTransitionCall(k, m, t) ==
    IF k = "DFA"
    THEN DFA_addTransitionByStatesAndCharacter(m, t[1], t[2], t[3])
    ELSE DPDA_addTransitionByStatesAndCharacter(m, t[1], t[2], t[3], t[4], t[5])

DFAAddTransition ==
    /\ kind = "DFA"
    /\ \E t \in DFATransitions :
          LET r == AddTransitionCall("DFA", Cur, t)
          IN  /\ Cardinality(DOMAIN r.m.transitionFunction) <= MaxTransitions
              /\ Commit(r.m)
              /\ last' = Observed("addTransition", FALSE, r.threw, "none")
    /\ UNCHANGED <<kind, attribs, alphabet, setterCalls>>

DPDAAddTransition ==
    /\ kind = "DPDA"
    /\ \E t \in DPDATransitions :
          LET r == AddTransitionCall("DPDA", Cur, t)
          IN  /\ Cardinality(DOMAIN r.m.transitionFunction) <= MaxTransitions
              /\ Commit(r.m)
              /\ last' = Observed("addTransition", FALSE, r.threw, "none")
    /\ UNCHANGED <<kind, attribs, alphabet, setterCalls>>

RemoveTransitionCall(k, m, t) ==
    IF k = "DFA"
    THEN DFA_removeTransitionByStateLabelsAndCharacter(m, t[1], t[2])
    ELSE DPDA_removeTransitionByStateLabelsAndCharacter(m, t[1], t[2], t[3])

\* removeTransitionByStateLabelsAndCharacter(...)
DFARemoveTransitionOf(label, character) ==
    /\ kind = "DFA"
    /\ LET r == DFA_removeTransitionByStateLabelsAndCharacter(Cur, label, character)
       IN  /\ Commit(r.m)
           /\ last' = Observed("removeTransition", FALSE, r.threw, "none")
    /\ UNCHANGED <<kind, attribs, alphabet, setterCalls>>

DPDARemoveTransitionOf(label, character, stackElement) ==
    /\ kind = "DPDA"
    /\ LET r == DPDA_removeTransitionByStateLabelsAndCharacter(
                    Cur, label, character, stackElement)
       IN  /\ Commit(r.m)
           /\ last' = Observed("removeTransition", FALSE, r.threw, "none")
    /\ UNCHANGED <<kind, attribs, alphabet, setterCalls>>

DFARemoveTransition ==
    \E t \in DFATransitions : DFARemoveTransitionOf(t[1], t[2])

DPDARemoveTransition ==
    \E t \in DPDATransitions : DPDARemoveTransitionOf(t[1], t[2], t[3])

\* the symbols offered to setInitialStackSymbol and the strings offered to
\* stackPush: x is not in the stack alphabet
StackSymbols == {"Z", "a", "x"}
StackStrings == {"Z", "a", "aa", "x"}

\* setInitialStackSymbol(symbol)
DPDASetInitialStackSymbolOf(symbol) ==
    /\ setterCalls < MaxSetterCalls
    /\ setterCalls' = setterCalls + 1
    /\ kind = "DPDA"
    /\ LET r == setInitialStackSymbol(Cur, symbol)
       IN  /\ Commit(r.m)
           /\ last' = Observed("setInitialStackSymbol", FALSE, r.threw, "none")
    /\ UNCHANGED <<kind, attribs, alphabet>>

DPDASetInitialStackSymbol ==
    \E symbol \in StackSymbols : DPDASetInitialStackSymbolOf(symbol)

\* stackPush(str), while the stack it leaves has at most MaxStack elements
DPDAStackPushOf(str) ==
    /\ setterCalls < MaxSetterCalls
    /\ setterCalls' = setterCalls + 1
    /\ kind = "DPDA"
    /\ LET r == stackPush(Cur, str)
       IN  /\ Commit(r.m)
           /\ last' = Observed("stackPush", FALSE, r.threw, "none")
    /\ UNCHANGED <<kind, attribs, alphabet>>

DPDAStackPush ==
    /\ kind = "DPDA"
    /\ \E str \in StackStrings :
          /\ Len(stackPush(Cur, str).m.stack) <= MaxStack
          /\ DPDAStackPushOf(str)

\* the values offered to the setters: cursor positions, tapes, stack
\* alphabets (the one of the construction, one without the initial stack
\* symbol Z and one with the symbol x), stacks and acceptance modes
PointerPositions == {0, 1, 2}
Tapes(k) == {<< >>, <<CHOOSE c \in Alphabet(k) : TRUE>>}
StackAlphabets == {StackAlphabet, {"b"}, {"x", "Z"}}
Stacks == {<< >>, <<"a">>}
AcceptanceModes == {ACCEPT_BY_STATE, ACCEPT_BY_STACK}

\* setPointerPosition(pointerPosition), of the DFA and of the DPDA
SetPointerPosition ==
    /\ setterCalls < MaxSetterCalls
    /\ setterCalls' = setterCalls + 1
    /\ kind \in {"DFA", "DPDA"}
    /\ \E p \in PointerPositions :
          Commit(setPointerPosition(Cur, p))
    /\ last' = Observed("setPointerPosition", FALSE, "none", "none")
    /\ UNCHANGED <<kind, attribs, alphabet>>

\* setIsAccepted(isAccepted)
SetIsAccepted ==
    /\ setterCalls < MaxSetterCalls
    /\ setterCalls' = setterCalls + 1
    /\ kind \in {"DFA", "DPDA"}
    /\ \E accepted \in BOOLEAN : Commit(setIsAccepted(Cur, accepted))
    /\ last' = Observed("setIsAccepted", FALSE, "none", "none")
    /\ UNCHANGED <<kind, attribs, alphabet>>

\* setTape(tape), with a tape holding one of the input strings
SetTape ==
    /\ setterCalls < MaxSetterCalls
    /\ setterCalls' = setterCalls + 1
    /\ kind \in {"DFA", "DPDA"}
    /\ \E chars \in Tapes(kind) : Commit(setTape(Cur, chars))
    /\ last' = Observed("setTape", FALSE, "none", "none")
    /\ UNCHANGED <<kind, attribs, alphabet>>

\* halt(), called by the client
Halt ==
    /\ setterCalls < MaxSetterCalls
    /\ setterCalls' = setterCalls + 1
    /\ kind \in {"DFA", "DPDA"}
    /\ LET m == IF kind = "DFA" THEN DFA_halt(Cur).m ELSE DPDA_halt(Cur).m
           ret == IF kind = "DFA" THEN DFA_halt(Cur).ret = TRUE
                  ELSE DPDA_halt(Cur).ret = "true"
       IN  /\ Commit(m)
           /\ last' = Observed("halt", ret, "none", "none")
    /\ UNCHANGED <<kind, attribs, alphabet>>

\* setAllowEpsilonTransitions(allowEpsilonTransitions)
DFASetAllowEpsilonTransitions ==
    /\ setterCalls < MaxSetterCalls
    /\ setterCalls' = setterCalls + 1
    /\ kind = "DFA"
    /\ \E allow \in BOOLEAN : Commit(setAllowEpsilonTransitions(Cur, allow))
    /\ last' = Observed("setAllowEpsilonTransitions", FALSE, "none", "none")
    /\ UNCHANGED <<kind, attribs, alphabet>>

\* setAcceptanceMode(acceptanceMode)
DPDASetAcceptanceMode ==
    /\ setterCalls < MaxSetterCalls
    /\ setterCalls' = setterCalls + 1
    /\ kind = "DPDA"
    /\ \E mode \in AcceptanceModes : Commit(setAcceptanceMode(Cur, mode))
    /\ last' = Observed("setAcceptanceMode", FALSE, "none", "none")
    /\ UNCHANGED <<kind, attribs, alphabet>>

\* setStackAlphabet(stackAlphabet)
DPDASetStackAlphabet ==
    /\ setterCalls < MaxSetterCalls
    /\ setterCalls' = setterCalls + 1
    /\ kind = "DPDA"
    /\ \E alphabetSet \in StackAlphabets :
          Commit(setStackAlphabet(Cur, alphabetSet))
    /\ last' = Observed("setStackAlphabet", FALSE, "none", "none")
    /\ UNCHANGED <<kind, attribs, alphabet>>

\* setStack(stack)
DPDASetStack ==
    /\ setterCalls < MaxSetterCalls
    /\ setterCalls' = setterCalls + 1
    /\ kind = "DPDA"
    /\ \E data \in Stacks : Commit(setStack(Cur, data))
    /\ last' = Observed("setStack", FALSE, "none", "none")
    /\ UNCHANGED <<kind, attribs, alphabet>>

\* stackPop(): the element it returns is observed in last.ret (FALSE when
\* it returns undefined, the stack being empty)
DPDAStackPop ==
    /\ setterCalls < MaxSetterCalls
    /\ setterCalls' = setterCalls + 1
    /\ kind = "DPDA"
    /\ LET r == stackPop(Cur)
       IN  /\ Commit(r.m)
           /\ last' = Observed("stackPop",
                               IF r.ret = Undefined THEN FALSE ELSE r.ret,
                               "none", "none")
    /\ UNCHANGED <<kind, attribs, alphabet>>

\* the calls of the engine: step, run, reset and setInputString, on a
\* machine whose transitions are registered before or between them
NextEngine ==
    \/ DFAStep
    \/ DPDAStep
    \/ DFARun
    \/ DPDARun
    \/ DFAReset
    \/ DPDAReset
    \/ DFASetInputString
    \/ DPDASetInputString
    \/ DFAAddTransition
    \/ DPDAAddTransition

SpecEngine == Init /\ [][NextEngine]_vars

\* every call of the public interface that changes the instance
Next ==
    \/ NextEngine
    \/ DPDASetInitialStackSymbol
    \/ DPDAStackPush
    \/ SetPointerPosition
    \/ SetIsAccepted
    \/ SetTape
    \/ Halt
    \/ DFASetAllowEpsilonTransitions
    \/ DPDASetAcceptanceMode
    \/ DPDASetStackAlphabet
    \/ DPDASetStack
    \/ DPDAStackPop

Spec == Init /\ [][Next]_vars

---------------------------------------------------------------------------
(* Runs from the initial configuration: a machine whose transitions were   *)
(* registered and whose input was set before the first step, then stepped  *)
(* (and reset) only.                                                       *)

\* the transition function after registering the transitions ts, none of
\* which add() refuses
RECURSIVE Registered(_, _)
Registered(k, ts) ==
    IF ts = {} THEN << >>
    ELSE LET t == CHOOSE x \in ts : TRUE
             tf == Registered(k, ts \ {t})
         IN  IF k = "DFA"
             THEN add(tf, Condition(t[1], t[2], Undefined),
                      Command(t[3], Undefined, Undefined))
             ELSE add(tf, Condition(t[1], t[2], t[3]),
                      Command(t[5], STACK_CHANGE, t[4]))

\* the sets of at most n transitions that can be registered together: no
\* two for one condition, no two epsilon transitions for one state
Registrable(k, n) ==
    {ts \in SUBSET (IF k = "DFA" THEN DFATransitions ELSE DPDATransitions) :
        /\ Cardinality(ts) <= n
        /\ \A t, u \in ts :
              t # u =>
                 /\ IF k = "DFA" THEN <<t[1], t[2]>> # <<u[1], u[2]>>
                    ELSE <<t[1], t[2], t[3]>> # <<u[1], u[2], u[3]>>
                 /\ ~(t[1] = u[1] /\ t[2] = EPSILON_STRING
                                  /\ u[2] = EPSILON_STRING)}

InitRun ==
    /\ kind \in {"DFA", "DPDA"}
    /\ attribs = IF kind = "DFA" THEN "allowEpsilonTransitions:true"
                 ELSE "initialStackSymbol:Z"
    /\ allowEpsilonTransitions = TRUE
    /\ transitionFunction \in
          {Registered(kind, ts) : ts \in Registrable(kind, MaxMachine)}
    /\ tape \in Strings(Alphabet(kind), MaxInput)
    /\ pointerPosition = 0
    /\ currentState = InitialState
    /\ stepCount = 0
    /\ isHalted = FALSE
    /\ isAccepted = FALSE
    /\ stack = IF kind = "DPDA" THEN <<"Z">> ELSE << >>
    /\ acceptanceMode = Null
    /\ initialStackSymbol = IF kind = "DPDA" THEN "Z" ELSE Undefined
    /\ stackAlphabet = IF kind = "DPDA" THEN StackAlphabet ELSE Undefined
    /\ alphabet = Null
    /\ setterCalls = 0
    /\ last = Observed("setInputString", FALSE, "none", "none")

NextRun ==
    \/ DFAStepUpTo(MaxRunSteps)
    \/ DPDAStepUpTo(MaxRunSteps)
    \/ DFAReset
    \/ DPDAReset

SpecRun == InitRun /\ [][NextRun]_vars

---------------------------------------------------------------------------
(* Configuration: a machine constructed with any options that the          *)
(* constructor accepts, on which transitions are added and removed, the    *)
(* initial stack symbol is set, the stack is pushed on and the setters and *)
(* halt() are called, between resets; no step is made.                     *)

InitConfig ==
    /\ \E k \in {"DFA", "DPDA"} :
          \E a \in IF k = "DFA" THEN DFAAttribs ELSE DPDAAttribs :
             /\ Constructed(k, a).threw = "none"
             /\ IsNew(k, a, Constructed(k, a).m)
    /\ alphabet = Null
    /\ setterCalls = 0
    /\ last = Observed("new", FALSE, "none", "none")

NextConfig ==
    \/ DFAAddTransition
    \/ DPDAAddTransition
    \/ DFARemoveTransition
    \/ DPDARemoveTransition
    \/ DPDASetInitialStackSymbol
    \/ DPDAStackPush
    \/ DFAReset
    \/ DPDAReset
    \/ SetPointerPosition
    \/ SetIsAccepted
    \/ SetTape
    \/ Halt
    \/ DFASetAllowEpsilonTransitions
    \/ DPDASetAcceptanceMode
    \/ DPDASetStackAlphabet
    \/ DPDASetStack
    \/ DPDAStackPop

SpecConfig == InitConfig /\ [][NextConfig]_vars

---------------------------------------------------------------------------
(* An Alphabet on its own, as Alphabet.Test.js uses it: an instance is      *)
(* built from a blank symbol and a chars string, or is the predefined      *)
(* TALLY_NOTATION, and is asked contains(symbol) and getBlank(). `attribs` *)
(* is the configuration object it was built from; no machine is involved   *)
(* and the machine's fields keep their defaults.                           *)

\* the symbols alphabets are built from and asked about
AlphabetSymbols == {"A", "B", "D"}

\* the configuration objects: a non-empty chars string and one of its
\* characters as the blank
AlphabetAttribs ==
    UNION {{[blank |-> cs[i], chars |-> cs] : i \in DOMAIN cs} :
              cs \in Strings(AlphabetSymbols, MaxChars)} \cup {TallyAttribs}

InitAlphabet ==
    /\ \E a \in AlphabetAttribs :
          /\ IsNew("Alphabet", a, BaseMachine_init)
          /\ alphabet = Alphabet_new(a)
    /\ setterCalls = 0
    /\ last = Observed("new", FALSE, "none", "none")

\* contains(symbol): the value returned is observed in last.ret and the
\* symbol asked about in last.outcome
AlphabetContains ==
    /\ kind = "Alphabet"
    /\ \E symbol \in AlphabetSymbols \cup {"0", "1"} :
          last' = Observed("contains", Alphabet_contains(alphabet, symbol),
                           "none", symbol)
    /\ UNCHANGED <<kind, attribs, alphabet, allowEpsilonTransitions,
                   transitionFunction, tape, pointerPosition, currentState,
                   stepCount, isHalted, isAccepted, stack, acceptanceMode,
                   initialStackSymbol, stackAlphabet, setterCalls>>

\* getBlank(): the symbol returned is observed in last.outcome
AlphabetGetBlank ==
    /\ kind = "Alphabet"
    /\ last' = Observed("getBlank", FALSE, "none", Alphabet_getBlank(alphabet))
    /\ UNCHANGED <<kind, attribs, alphabet, allowEpsilonTransitions,
                   transitionFunction, tape, pointerPosition, currentState,
                   stepCount, isHalted, isAccepted, stack, acceptanceMode,
                   initialStackSymbol, stackAlphabet, setterCalls>>

NextAlphabet == AlphabetContains \/ AlphabetGetBlank

SpecAlphabet == InitAlphabet /\ [][NextAlphabet]_vars

---------------------------------------------------------------------------
(* Claims. *)

\* the call being made is step() / reset()
IsStep == last'.op = "step" /\ (DFAStepCall \/ DPDAStepCall)
IsReset == last'.op = "reset" /\ (DFAReset \/ DPDAReset)

\* C1: in every state reachable by step, run, reset and setInputString
\* (and addTransition) calls on a DFA or a DPDA, accepted implies halted.
C1_AcceptedImpliesHalted == isAccepted => isHalted

\* C1 witness: a step has halted the machine and accepted the input
C1_Witness ==
    /\ last.op = "step"
    /\ last.outcome \in {"halt", "moveHalt"}
    /\ isHalted /\ isAccepted

\* C2: once the machine is halted, step() returns true, fires no callback
\* and leaves the cursor, the stack, the step count, the current state, the
\* accepted flag (and every other field) unchanged; only reset() makes a
\* halted machine not halted.
C2_HaltedStepIsNoOp ==
    /\ [][(isHalted /\ IsStep) =>
             /\ UNCHANGED <<pointerPosition, stack, stepCount, currentState,
                            isAccepted, isHalted, tape, transitionFunction,
                            acceptanceMode>>
             /\ last'.ret = TRUE
             /\ last'.threw = "none"
             /\ (kind = "DFA" => DFA_step(Cur).m.events = << >>)
             /\ (kind = "DPDA" => DPDA_step(Cur).m.events = << >>)]_vars
    /\ [][(isHalted /\ ~isHalted') => IsReset]_vars

\* C2 witness: step() was called on a halted machine
C2_Witness ==
    /\ isHalted
    /\ last.op = "step"
    /\ last.outcome = "idle"
    /\ stepCount > 0

---------------------------------------------------------------------------
(* C3: a DFA without epsilon transitions reading its whole input. *)

\* the state the transitions of tf lead to from the initial state on the
\* first k symbols of w; "none" when a transition on the way is missing
RECURSIVE StateAfter(_, _, _)
StateAfter(tf, w, k) ==
    IF k = 0 THEN InitialState
    ELSE LET q == StateAfter(tf, w, k - 1)
         IN  IF q = "none" THEN "none"
             ELSE IF Condition(q, w[k], Undefined) \in DOMAIN tf
             THEN tf[Condition(q, w[k], Undefined)].state
             ELSE "none"

\* the machine of the DFA scenario: q0 -1-> q1, q1 -1-> q1, q0 -0-> q0
ScenarioDFA ==
    Registered("DFA", {<<"q0", "1", "q1">>, <<"q1", "1", "q1">>,
                       <<"q0", "0", "q0">>})

\* C3: for a DFA with no epsilon transitions and an input w of length
\* n >= 1 whose (state, symbol) pairs all have a transition, stepping from
\* the initial configuration reports halted on exactly the n-th step, with
\* step count n and cursor n, and the input is accepted iff the state
\* reached after the whole of w is accepting; the scenario machine halts
\* accepted on "011" at step 3 with cursor 3, and rejected on "00" with
\* cursor 2.
C3_DFAReadsWholeInput ==
    /\ (/\ kind = "DFA"
        /\ \A c \in DOMAIN transitionFunction : c.character # EPSILON_STRING
        /\ Len(tape) >= 1
        /\ StateAfter(transitionFunction, tape, Len(tape)) # "none")
       => /\ stepCount <= Len(tape)
          /\ pointerPosition = stepCount
          /\ currentState = StateAfter(transitionFunction, tape, stepCount)
          /\ isHalted <=> (stepCount = Len(tape))
          /\ (last.op = "step" /\ last.outcome # "idle")
                => (last.ret <=> (stepCount = Len(tape)))
          /\ isHalted =>
                (isAccepted <=>
                   getIsAccepting(StateAfter(transitionFunction, tape, Len(tape))))
    /\ (kind = "DFA" /\ transitionFunction = ScenarioDFA /\ isHalted)
       => /\ tape = <<"0", "1", "1">>
                => (isAccepted /\ stepCount = 3 /\ pointerPosition = 3)
          /\ tape = <<"0", "0">>
                => (~isAccepted /\ stepCount = 2 /\ pointerPosition = 2)

\* C3 witness: the scenario machine has read "011" and halted accepted on
\* its third step
C3_Witness ==
    /\ kind = "DFA"
    /\ transitionFunction = ScenarioDFA
    /\ tape = <<"0", "1", "1">>
    /\ last.op = "step" /\ last.outcome = "moveHalt" /\ last.ret
    /\ isHalted /\ isAccepted /\ stepCount = 3 /\ pointerPosition = 3

---------------------------------------------------------------------------
(* C4 to C6: the paths of one step. *)

\* the call being made is step() on a DFA / a DPDA that is not halted
DFARunningStep ==
    kind = "DFA" /\ ~isHalted /\ last'.op = "step" /\ DFAStepCall
DPDARunningStep ==
    kind = "DPDA" /\ ~isHalted /\ last'.op = "step" /\ DPDAStepCall

\* C4: in a DFA step, the halting check at the start halts the machine
\* exactly when the cursor is at the end of the tape and the current state
\* has no epsilon transition, and so does the check after a transition (for
\* the cursor and state the transition led to); a machine halted that way is
\* accepted iff its current state is accepting; at the end of the tape a
\* state with an epsilon transition does not halt the machine but takes the
\* transition.
C4_DFAHaltingCheck ==
    [][DFARunningStep =>
         LET atEnd == pointerPosition >= Len(tape)
             hasEps == \E c \in DOMAIN transitionFunction :
                          c.state = currentState /\ c.character = EPSILON_STRING
             atEndAfter == pointerPosition' >= Len(tape')
             hasEpsAfter == \E c \in DOMAIN transitionFunction' :
                               c.state = currentState' /\ c.character = EPSILON_STRING
         IN  /\ (last'.outcome = "halt") <=> (atEnd /\ ~hasEps)
             /\ last'.outcome = "halt" =>
                   UNCHANGED <<currentState, pointerPosition>>
             /\ last'.outcome \in {"move", "moveHalt"} =>
                   ((last'.outcome = "moveHalt") <=> (atEndAfter /\ ~hasEpsAfter))
             /\ last'.outcome \in {"halt", "moveHalt"} =>
                   /\ isHalted' /\ last'.ret
                   /\ isAccepted' <=> getIsAccepting(currentState')
             /\ last'.outcome = "move" => (~isHalted' /\ ~last'.ret)
             /\ (atEnd /\ hasEps) =>
                   /\ last'.outcome \in {"move", "moveHalt"}
                   /\ \E c \in DOMAIN transitionFunction :
                         /\ c.state = currentState
                         /\ c.character = EPSILON_STRING
                         /\ currentState' = transitionFunction[c].state
                   /\ pointerPosition' = pointerPosition]_vars

\* C4 witness: a DFA at the end of its tape took an epsilon transition
\* instead of halting
C4_Witness ==
    /\ kind = "DFA"
    /\ tape = << >>
    /\ last.op = "step" /\ last.outcome = "move"
    /\ ~isHalted /\ stepCount >= 1 /\ pointerPosition = 0

\* C5: a step() on a running machine that builds a condition with no
\* command registered halts the machine and marks it rejected without
\* throwing; the step count is one more than before, and the cursor, the
\* current state and the stack are unchanged.
C5_NoTransitionRejects ==
    /\ [][(DFARunningStep /\ ~DFA_haltDue(Cur)
             /\ DFA_condition(Cur) \notin DOMAIN transitionFunction) =>
             /\ isHalted' /\ ~isAccepted'
             /\ last'.ret = TRUE /\ last'.threw = "none"
             /\ stepCount' = stepCount + 1
             /\ UNCHANGED <<pointerPosition, currentState, stack>>]_vars
    /\ [][(DPDARunningStep /\ ~DPDA_haltDue(Cur)
             /\ DPDA_condition(Cur) \notin DOMAIN transitionFunction) =>
             /\ isHalted' /\ ~isAccepted'
             /\ last'.ret = TRUE /\ last'.threw = "none"
             /\ stepCount' = stepCount + 1
             /\ UNCHANGED <<pointerPosition, currentState, stack>>]_vars

\* C5 witness: a step found no command and rejected, with input left
C5_Witness ==
    /\ last.op = "step" /\ last.outcome = "reject"
    /\ isHalted /\ ~isAccepted
    /\ pointerPosition < Len(tape)

\* the command of the transition a step applies from the current state when
\* the state has no epsilon transition
SymbolCondition ==
    Condition(currentState, charAt(tape, pointerPosition),
              IF kind = "DFA" THEN Undefined ELSE peek(stack))

\* C6: in every step that applies a transition, if the current state has an
\* epsilon transition that transition is applied (also when a transition
\* for the symbol under the cursor is registered) and the cursor stays;
\* otherwise the transition for the symbol under the cursor is applied and
\* the cursor advances by exactly one.
C6_EpsilonPrecedence ==
    [][((DFARunningStep \/ DPDARunningStep)
          /\ last'.outcome \in {"move", "moveHalt"}) =>
         IF \E c \in DOMAIN transitionFunction :
               c.state = currentState /\ c.character = EPSILON_STRING
         THEN /\ \E c \in DOMAIN transitionFunction :
                    /\ c.state = currentState
                    /\ c.character = EPSILON_STRING
                    /\ currentState' = transitionFunction[c].state
              /\ pointerPosition' = pointerPosition
         ELSE /\ pointerPosition < Len(tape)
              /\ SymbolCondition \in DOMAIN transitionFunction
              /\ currentState' = transitionFunction[SymbolCondition].state
              /\ pointerPosition' = pointerPosition + 1]_vars

\* C6 witness: the first step of a DFA whose initial state has an epsilon
\* transition to q0 and a transition to q1 for the symbol under the cursor
\* took the epsilon transition
C6_Witness ==
    /\ kind = "DFA"
    /\ last.op = "step" /\ last.outcome = "move"
    /\ stepCount = 1 /\ pointerPosition = 0 /\ Len(tape) >= 1
    /\ currentState = "q0"
    /\ Condition("q0", EPSILON_STRING, Undefined) \in DOMAIN transitionFunction
    /\ Condition("q0", tape[1], Undefined) \in DOMAIN transitionFunction
    /\ transitionFunction[Condition("q0", tape[1], Undefined)].state = "q1"

---------------------------------------------------------------------------
(* C7, C8: run(maxSteps). *)

\* the machine m after j successive calls of step()
RECURSIVE AfterSteps(_, _, _)
AfterSteps(k, m, j) ==
    IF j = 0 THEN m
    ELSE IF k = "DFA" THEN DFA_step(AfterSteps(k, m, j - 1)).m
    ELSE DPDA_step(AfterSteps(k, m, j - 1)).m

\* the result of the j-th of successive calls of step() on m
NthStep(k, m, j) ==
    IF k = "DFA" THEN DFA_step(AfterSteps(k, m, j - 1))
    ELSE DPDA_step(AfterSteps(k, m, j - 1))

\* the number of step() calls a loop of at most n makes on m: up to the
\* first that reports halted (or throws)
StepsMade(k, m, n) ==
    LET ending == {j \in 1..n : \/ NthStep(k, m, j).ret = TRUE
                                \/ NthStep(k, m, j).threw # "none"}
    IN  IF ending = {} THEN n
        ELSE CHOOSE j \in ending : \A i \in ending : j <= i

\* the call being made is run(maxSteps)
IsRunN(maxSteps) ==
    last'.op = "run" /\ (DFARunN(maxSteps) \/ DPDARunN(maxSteps))

\* C7: run(maxSteps) makes at most maxSteps steps (the step count grows by
\* at most maxSteps), stops at the first step that reports halted, leaving
\* the machine as that step left it, and returns true iff a step within the
\* bound reported halted.
C7_RunBounded ==
    [][\A maxSteps \in 0..MaxRun :
         IsRunN(maxSteps) =>
           LET made == StepsMade(kind, Cur, maxSteps)
               final == AfterSteps(kind, Cur, made)
           IN  /\ stepCount' <= stepCount + maxSteps
               /\ stepCount' <= stepCount + made
               /\ stepCount' = final.stepCount
               /\ isHalted' = final.isHalted
               /\ isAccepted' = final.isAccepted
               /\ pointerPosition' = final.pointerPosition
               /\ currentState' = final.currentState
               /\ stack' = final.stack
               /\ acceptanceMode' = final.acceptanceMode
               /\ last'.threw = "none" =>
                     (last'.ret = TRUE <=>
                        \E j \in 1..made : NthStep(kind, Cur, j).ret = TRUE)]_vars

\* C7 witness: a run used up its steps without a halt and returned false
C7_Witness ==
    /\ last.op = "run" /\ last.ret = FALSE /\ last.threw = "none"
    /\ last.outcome = "move"
    /\ ~isHalted /\ stepCount >= 1

\* C8: the value run(maxSteps) returns is the halted flag of the machine
\* when run returns, for every maxSteps >= 0 and every starting
\* configuration, running or halted.
C8_RunReturnsHalted ==
    (last.op = "run" /\ last.threw = "none") => (last.ret = isHalted)

---------------------------------------------------------------------------
(* C9, C10: acceptance of the DPDA. *)

\* C9: when the halting check of the DPDA halts the machine, an accepting
\* current state makes it accepted with mode by-state (also with an empty
\* stack); otherwise an empty stack makes it accepted with mode by-stack;
\* otherwise it is rejected. A halt that rejects, a no-transition halt
\* included, leaves the acceptance mode as it was. The check is the one a
\* step or a run makes, and the one a direct call of halt() makes.
C9_AcceptanceAtHalt ==
    /\ [][(kind = "DPDA" /\ ~isHalted /\ last'.op \in {"step", "run"}
            /\ (DPDAStepCall \/ \E maxSteps \in 0..MaxRun : DPDARunN(maxSteps))) =>
           /\ last'.outcome \in {"halt", "moveHalt"} =>
                 /\ isHalted'
                 /\ IF getIsAccepting(currentState')
                    THEN isAccepted' /\ acceptanceMode' = ACCEPT_BY_STATE
                    ELSE IF stack' = << >>
                    THEN isAccepted' /\ acceptanceMode' = ACCEPT_BY_STACK
                    ELSE ~isAccepted' /\ acceptanceMode' = acceptanceMode
           /\ last'.outcome = "reject" =>
                 (isHalted' /\ ~isAccepted' /\ acceptanceMode' = acceptanceMode)]_vars
    /\ [][(kind = "DPDA" /\ Halt /\ last'.op = "halt" /\ last'.ret = TRUE) =>
           /\ isHalted'
           /\ UNCHANGED <<currentState, stack>>
           /\ IF getIsAccepting(currentState)
              THEN isAccepted' /\ acceptanceMode' = ACCEPT_BY_STATE
              ELSE IF stack = << >>
              THEN isAccepted' /\ acceptanceMode' = ACCEPT_BY_STACK
              ELSE ~isAccepted' /\ acceptanceMode' = acceptanceMode]_vars

\* C9 witness: the halting check halted a DPDA in an accepting state with
\* an empty stack, and the mode is by-state
C9_Witness ==
    /\ kind = "DPDA"
    /\ last.outcome \in {"halt", "moveHalt"}
    /\ isHalted /\ isAccepted
    /\ getIsAccepting(currentState) /\ stack = << >>
    /\ acceptanceMode = ACCEPT_BY_STATE

\* a machine of the by-stack scenario: one state q0, not accepting; on a
\* with top Z and on a with top a it pushes (a, aa or Za, after the pop of
\* the step), on b with top a it pops
ScenarioDPDA ==
    /\ kind = "DPDA"
    /\ DOMAIN transitionFunction =
          {Condition("q0", "a", "Z"), Condition("q0", "a", "a"),
           Condition("q0", "b", "a")}
    /\ \A c \in DOMAIN transitionFunction :
          transitionFunction[c].state = "q0"
    /\ transitionFunction[Condition("q0", "b", "a")].argument = EPSILON_STRING

\* C10: the scenario DPDA run on "aabb" from the initial configuration
\* empties its stack exactly when the tape is exhausted and halts accepted
\* with acceptance mode by-stack.
C10_AabbAcceptedByStack ==
    (ScenarioDPDA /\ tape = <<"a", "a", "b", "b">> /\ isHalted) =>
       /\ isAccepted
       /\ acceptanceMode = ACCEPT_BY_STACK
       /\ stack = << >>
       /\ pointerPosition = 4

---------------------------------------------------------------------------
(* C11: the halting check of the DPDA. *)

\* C11: in a DPDA step, the halting check at the start halts the machine
\* exactly when the cursor is at the end of the tape and the current state
\* has no epsilon transition or the stack is empty (its top reads epsilon),
\* and so does the check after a transition; with the input exhausted, an
\* epsilon transition on the current state and a stack that is not empty
\* the step applies the epsilon transition, and with the input exhausted
\* and an empty stack it halts also when the state has an epsilon transition.
C11_DPDAHaltingCheck ==
    [][DPDARunningStep =>
         LET atEnd == pointerPosition >= Len(tape)
             hasEps == \E c \in DOMAIN transitionFunction :
                          c.state = currentState /\ c.character = EPSILON_STRING
             atEndAfter == pointerPosition' >= Len(tape')
             hasEpsAfter == \E c \in DOMAIN transitionFunction' :
                               c.state = currentState' /\ c.character = EPSILON_STRING
         IN  /\ (last'.outcome = "halt") <=> (atEnd /\ (~hasEps \/ stack = << >>))
             /\ last'.outcome = "halt" =>
                   UNCHANGED <<currentState, pointerPosition, stack>>
             /\ last'.outcome \in {"move", "moveHalt"} =>
                   ((last'.outcome = "moveHalt")
                       <=> (atEndAfter /\ (~hasEpsAfter \/ stack' = << >>)))
             /\ last'.outcome \in {"halt", "moveHalt"} => (isHalted' /\ last'.ret)
             /\ last'.outcome = "move" => (~isHalted' /\ ~last'.ret)
             /\ (atEnd /\ hasEps /\ stack # << >>) =>
                   /\ last'.outcome \in {"move", "moveHalt"}
                   /\ \E c \in DOMAIN transitionFunction :
                         /\ c.state = currentState
                         /\ c.character = EPSILON_STRING
                         /\ currentState' = transitionFunction[c].state
                   /\ pointerPosition' = pointerPosition
             /\ (atEnd /\ hasEps /\ stack = << >>) =>
                   (last'.outcome = "halt" /\ isHalted')]_vars

\* C11 witness: with the input exhausted a step emptied the stack and the
\* halting check halted the DPDA in a state that has an epsilon transition
C11_Witness ==
    /\ kind = "DPDA"
    /\ last.op = "step" /\ last.outcome = "moveHalt"
    /\ isHalted /\ stack = << >> /\ pointerPosition >= Len(tape)
    /\ \E c \in DOMAIN transitionFunction :
          c.state = currentState /\ c.character = EPSILON_STRING

---------------------------------------------------------------------------
(* C12: the reset law. *)

\* what a client sees of one step(): the condition and the command of the
\* step, the value returned and the configuration afterwards
Snapshot(s) ==
    [condition |-> s.condition, command |-> s.command, ret |-> s.ret,
     threw |-> s.threw, currentState |-> s.m.currentState,
     pointerPosition |-> s.m.pointerPosition, stack |-> s.m.stack,
     stepCount |-> s.m.stepCount, isHalted |-> s.m.isHalted,
     isAccepted |-> s.m.isAccepted]

\* the snapshots of n successive calls of step() on m
RECURSIVE StepTrace(_, _, _)
StepTrace(k, m, n) ==
    IF n = 0 THEN << >>
    ELSE LET s == IF k = "DFA" THEN DFA_step(m) ELSE DPDA_step(m)
         IN  <<Snapshot(s)>> \o StepTrace(k, s.m, n - 1)

\* a freshly constructed machine with the transitions and the input of the
\* instance
Fresh ==
    LET c == [Constructed(kind, attribs).m
                 EXCEPT !.transitionFunction = transitionFunction]
    IN  IF kind = "DFA" THEN DFA_setInputString(c, tape)
        ELSE DPDA_setInputString(c, tape)

\* C12: reset() on a machine that step calls brought to any configuration
\* keeps the transition function and the tape, and stepping the machine
\* again on the same input gives the same sequence of (condition, command)
\* steps, returned values, states, cursors, stacks, step counts and
\* halted/accepted flags as stepping a freshly constructed machine with the
\* same transitions and input.
C12_ResetLaw ==
    [][IsReset =>
         /\ transitionFunction' = transitionFunction
         /\ tape' = tape
         /\ StepTrace(kind, Cur', MaxRunSteps)
               = StepTrace(kind, Fresh, MaxRunSteps)]_vars

\* C12 witness: a DPDA that had read part of its input, or had halted, was
\* reset
C12_Witness ==
    /\ kind = "DPDA"
    /\ last.op = "reset"
    /\ acceptanceMode = ACCEPT_BY_STACK
    /\ Len(tape) >= 2
    /\ stepCount = 0 /\ pointerPosition = 0 /\ ~isHalted

---------------------------------------------------------------------------
(* C13: the stack after construction and after reset. *)

\* C13: right after the construction of a DPDA and right after every
\* reset(), whatever the stack held before, the stack holds exactly one
\* symbol, the configured initial stack symbol (after construction: the
\* initialStackSymbol option, or the blank of the stack alphabet). A
\* reset() made after setStackAlphabet took the initial stack symbol out of
\* the stack alphabet throws and leaves the stack empty.
C13_StackAfterReset ==
    /\ (kind = "DPDA" /\ last.op \in {"new", "reset"})
          => stack = <<initialStackSymbol>>
    /\ (kind = "DPDA" /\ last.op = "new")
          => initialStackSymbol =
                IF attribs = "none" THEN getBlank
                ELSE attribsInitialStackSymbol(attribs)

---------------------------------------------------------------------------
(* C14: setInputString. *)

\* C14: in every reachable state and for every text, setInputString(text)
\* makes text the contents of the tape and sets the cursor to 0, and leaves
\* the current state, the step count, the halted flag, the accepted flag,
\* the stack and the transition function as they were; on a halted machine
\* the machine it leaves is halted, so that the next step() does nothing.
C14_SetInputStringFrame ==
    \A input \in (IF kind = "DFA" THEN DFAInputs ELSE DPDAInputs) :
       LET r == IF kind = "DFA" THEN DFA_setInputString(Cur, input)
                ELSE DPDA_setInputString(Cur, input)
           s == IF kind = "DFA" THEN DFA_step(r) ELSE DPDA_step(r)
       IN  /\ r.tape = input
           /\ r.pointerPosition = 0
           /\ r.currentState = currentState
           /\ r.stepCount = stepCount
           /\ r.isHalted = isHalted
           /\ r.isAccepted = isAccepted
           /\ r.stack = stack
           /\ r.transitionFunction = transitionFunction
           /\ isHalted => (s.ret = TRUE /\ s.m = r)

\* C14 witness: setInputString gave a halted machine that had accepted a
\* new input without a reset
C14_Witness ==
    /\ last.op = "setInputString"
    /\ isHalted /\ isAccepted
    /\ stepCount >= 1
    /\ Len(tape) >= 1 /\ pointerPosition = 0

---------------------------------------------------------------------------
(* C15: determinism of the transition function. *)

\* the condition and the command addTransitionByStatesAndCharacter builds
\* from its arguments
TransitionCondition(k, t) ==
    IF k = "DFA" THEN Condition(t[1], t[2], Undefined)
    ELSE Condition(t[1], t[2], t[3])

TransitionCommand(k, t) ==
    IF k = "DFA" THEN Command(t[3], Undefined, Undefined)
    ELSE Command(t[5], STACK_CHANGE, t[4])

\* C15: in every state reached by add and remove calls, an add whose
\* condition is registered with a different command fails with an error
\* (DuplicateTransitionError, or the refusal of an epsilon transition by a
\* DFA that does not allow them, which is tested first) and leaves the
\* transition function (and the rest of the machine) unchanged; an add
\* that succeeds registers its command under its condition and leaves
\* every other condition with the command it had. So each condition has
\* at most one command.
C15_Determinism ==
    \A t \in (IF kind = "DFA" THEN DFATransitions ELSE DPDATransitions) :
       LET r == AddTransitionCall(kind, Cur, t)
           condition == TransitionCondition(kind, t)
           command == TransitionCommand(kind, t)
           tf == r.m.transitionFunction
           refused == /\ kind = "DFA"
                      /\ allowEpsilonTransitions = FALSE
                      /\ t[2] = EPSILON_STRING
       IN  /\ (/\ condition \in DOMAIN transitionFunction
               /\ transitionFunction[condition] # command)
                 => /\ r.threw = IF refused
                                 THEN "Epsilon transitions not permitted in this machine"
                                 ELSE "DuplicateTransitionError"
                    /\ r.m = Cur
           /\ r.threw # "none" => tf = transitionFunction
           /\ r.threw = "none" =>
                 /\ DOMAIN tf = DOMAIN transitionFunction \cup {condition}
                 /\ tf[condition] = command
                 /\ \A c \in DOMAIN transitionFunction :
                       tf[c] = transitionFunction[c]

\* C15 witness: an add with a registered condition and another command has
\* just failed, and the registered command is still there
C15_Witness ==
    /\ last.op = "addTransition"
    /\ last.threw = "DuplicateTransitionError"
    /\ Cardinality(DOMAIN transitionFunction) = 1

---------------------------------------------------------------------------
(* C16: removing a transition. *)

\* C16: removeTransitionByStateLabelsAndCharacter completes without error,
\* erases the transition registered for its condition when there is one
\* and changes nothing else; a step that then looks that condition up
\* finds no transition and halts rejected.
C16_RemoveErases ==
    \A t \in (IF kind = "DFA" THEN DFATransitions ELSE DPDATransitions) :
       LET r == RemoveTransitionCall(kind, Cur, t)
           condition == TransitionCondition(kind, t)
           tf == r.m.transitionFunction
       IN  /\ r.threw = "none"
           /\ DOMAIN tf = DOMAIN transitionFunction \ {condition}
           /\ \A c \in DOMAIN tf : tf[c] = transitionFunction[c]
           /\ r.m = [Cur EXCEPT !.transitionFunction = tf]
           /\ getCommand(tf, condition) = NullCommand

---------------------------------------------------------------------------
(* C17: a failing call. *)

\* C17: a call that fails with an error leaves the machine as it was; in
\* particular a DPDA step() that fails because the stack argument of its
\* command is not permitted by the stack alphabet leaves the stack, the
\* cursor, the current state, the step count and the halted and accepted
\* flags as they were before the call.
C17_FailureLeavesState ==
    [][last'.threw # "none" =>
         UNCHANGED <<transitionFunction, tape, pointerPosition, currentState,
                     stepCount, isHalted, isAccepted, stack,
                     initialStackSymbol>>]_vars

---------------------------------------------------------------------------
(* C18: stackPush. *)

\* C18: in every reachable state of a DPDA, stackPush(str) with a str that
\* is not compatible with the stack alphabet fails with an error, leaves
\* the stack as it was and fires no onStackPush; with a compatible str it
\* makes str the top of the stack, over the elements that were there, and
\* fires onStackPush once.
C18_StackPush ==
    kind = "DPDA" =>
      \A str \in StackStrings :
         LET r == stackPush(Cur, str)
             pushes == {i \in DOMAIN r.m.events :
                          r.m.events[i].name = "onStackPush"}
         IN  IF isCompatibleWith(stackAlphabet, str)
             THEN /\ r.threw = "none"
                  /\ r.m.stack = Append(stack, str)
                  /\ peek(r.m.stack) = str
                  /\ Cardinality(pushes) = 1
                  /\ \A i \in pushes : r.m.events[i].this = str
             ELSE /\ r.threw = "Invalid stack string."
                  /\ r.m.stack = stack
                  /\ pushes = {}

\* C18 witness: a stackPush with a string outside the stack alphabet has
\* failed on a DPDA constructed with initial stack symbol a, and the stack
\* still holds that symbol alone
C18_Witness ==
    /\ kind = "DPDA"
    /\ attribs = "initialStackSymbol:a"
    /\ last.op = "stackPush"
    /\ last.threw = "Invalid stack string."
    /\ stack = <<"a">>

---------------------------------------------------------------------------
(* C19: the initial stack symbol. *)

\* C19: configuring a DPDA with an initial stack symbol that the stack
\* alphabet does not contain fails with an error, at construction and in
\* setInitialStackSymbol, and leaves the initial stack symbol configured
\* before and the stack as they were; a symbol of the alphabet is
\* accepted. So in every reachable state the initial stack symbol is a
\* member of the stack alphabet. setStackAlphabet replaces the alphabet
\* without looking at the configured symbol.
C19_InitialStackSymbol ==
    kind = "DPDA" =>
      /\ contains(stackAlphabet, initialStackSymbol)
      /\ \A symbol \in StackSymbols :
            LET r == setInitialStackSymbol(Cur, symbol)
            IN  IF contains(stackAlphabet, symbol)
                THEN /\ r.threw = "none"
                     /\ r.m = [Cur EXCEPT !.initialStackSymbol = symbol]
                ELSE /\ r.threw = "Invalid initial stack character"
                     /\ r.m.initialStackSymbol = initialStackSymbol
                     /\ r.m.stack = stack
                     /\ r.m = Cur
      /\ \A a \in DPDAAttribs \ {"none"} :
            contains(StackAlphabet, attribsInitialStackSymbol(a))
               <=> DPDA_init(a).threw = "none"

---------------------------------------------------------------------------
(* C20: the allowEpsilonTransitions option. *)

\* C20: a DFA constructed without the allowEpsilonTransitions option does
\* not allow epsilon transitions: addTransitionByStatesAndCharacter with the
\* epsilon character fails with an error and registers nothing, so no
\* epsilon transition is ever registered.
C20_EpsilonOffByDefault ==
    (kind = "DFA" /\ attribs = "none") =>
      /\ allowEpsilonTransitions = FALSE
      /\ \A c \in DOMAIN transitionFunction : c.character # EPSILON_STRING
      /\ \A t \in DFATransitions :
            t[2] = EPSILON_STRING =>
               LET r == AddTransitionCall("DFA", Cur, t)
               IN  /\ r.threw = "Epsilon transitions not permitted in this machine"
                   /\ r.m = Cur

---------------------------------------------------------------------------
(* C21: Alphabet. *)

\* C21: for an Alphabet built from the characters of a string and a blank
\* symbol, contains(x) is true exactly for the symbols x that occur in the
\* string and false for every other symbol, and getBlank() returns the
\* blank it was built with; TALLY_NOTATION contains 0 and 1 and its blank
\* is 0.
C21_Alphabet ==
    kind = "Alphabet" =>
      /\ \A x \in AlphabetSymbols \cup {"0", "1"} :
            Alphabet_contains(alphabet, x)
               <=> \E i \in DOMAIN attribs.chars : attribs.chars[i] = x
      /\ Alphabet_getBlank(alphabet) = attribs.blank
      /\ last.op = "contains" =>
            last.ret = (\E i \in DOMAIN attribs.chars :
                          attribs.chars[i] = last.outcome)
      /\ last.op = "getBlank" => last.outcome = attribs.blank
      /\ Alphabet_contains(TALLY_NOTATION, "0")
      /\ Alphabet_contains(TALLY_NOTATION, "1")
      /\ Alphabet_getBlank(TALLY_NOTATION) = "0"

\* C21 witness: the alphabet of the test, built from blank A and chars AB,
\* has answered that it does not contain D
C21_Witness ==
    /\ kind = "Alphabet"
    /\ attribs = [blank |-> "A", chars |-> <<"A", "B">>]
    /\ last.op = "contains" /\ last.outcome = "D" /\ last.ret = FALSE

---------------------------------------------------------------------------
(* C22: the stack in a step of the DPDA. *)

\* C22: a DPDA step that applies a transition pops exactly one element
\* from the stack unless the stack field of the condition it matched is
\* epsilon (then it pops none), and then pushes the argument of the command
\* as one element iff the command is a stack change with an argument that
\* is not epsilon; so the depth of the stack changes by -1, 0 or +1.
C22_StackInStep ==
    [][(DPDARunningStep /\ last'.outcome \in {"move", "moveHalt"}) =>
         LET r == DPDA_step(Cur)
             pops == r.condition.stackElement # EPSILON_STRING
             pushes == /\ r.command.action = STACK_CHANGE
                       /\ r.command.argument # EPSILON_STRING
             rest == IF pops THEN SubSeq(stack, 1, Len(stack) - 1) ELSE stack
         IN  /\ pops => Len(stack) >= 1
             /\ stack' = IF pushes THEN Append(rest, r.command.argument)
                         ELSE rest
             /\ Len(stack') - Len(stack) \in {-1, 0, 1}]_vars

---------------------------------------------------------------------------
(* C23: the depth of the stack between operations. *)

\* C23, as claimed: in every state between DPDA operations (after the
\* construction and after each completed step, run or reset, the client
\* having called no setter and no stackPop itself) the stack holds at least
\* one symbol. Stated of the machines without an epsilon transition, whose
\* steps match the stack field of the condition with the top of the stack,
\* and whose commands push strings of the stack alphabet only, so that no
\* step fails.
C23_StackNeverEmpty ==
    (/\ kind = "DPDA"
     /\ setterCalls = 0
     /\ \A c \in DOMAIN transitionFunction :
           /\ c.character # EPSILON_STRING
           /\ \/ transitionFunction[c].argument = EPSILON_STRING
              \/ isCompatibleWith(stackAlphabet, transitionFunction[c].argument)
     /\ last.op \in {"new", "step", "run", "reset"}
     /\ last.threw = "none") => stack # << >>

\* C23, amended: right after the construction of a DPDA and after each
\* reset() that completes, the stack holds the configured initial stack
\* symbol alone; a reset() that fails, stackPush refusing an initial stack
\* symbol that a setStackAlphabet call has left outside the stack alphabet,
\* leaves the stack empty. A step leaves a stack that was not empty empty
\* only when it pops the one element left for a transition and pushes
\* nothing after it (the command pushes nothing, or its push fails), every
\* completed step that applies such a transition on a stack of one element
\* leaves it empty, and a step that pushes leaves the stack non-empty.
C23_StackAfterStep ==
    /\ \A a \in DPDAAttribs :
          LET c == DPDA_init(a)
          IN  c.threw = "none" => c.m.stack = <<c.m.initialStackSymbol>>
    /\ [](kind = "DPDA" =>
            \A alphabetSet \in StackAlphabets :
               LET r == DPDA_reset(setStackAlphabet(Cur, alphabetSet))
               IN  IF isCompatibleWith(alphabetSet, initialStackSymbol)
                   THEN /\ r.threw = "none"
                        /\ r.m.stack = <<initialStackSymbol>>
                   ELSE /\ r.threw = "Invalid stack string."
                        /\ r.m.stack = << >>)
    /\ [][DPDARunningStep =>
               LET r == DPDA_step(Cur)
                   pushes == /\ r.command.action = STACK_CHANGE
                             /\ r.command.argument # EPSILON_STRING
               IN  /\ (stack # << >> /\ stack' = << >>) =>
                         /\ last'.outcome \in {"move", "moveHalt", "error"}
                         /\ r.condition.stackElement # EPSILON_STRING
                         /\ ~pushes \/ last'.threw # "none"
                         /\ Len(stack) = 1
                   /\ (/\ last'.outcome \in {"move", "moveHalt"}
                       /\ r.condition.stackElement # EPSILON_STRING
                       /\ ~pushes
                       /\ Len(stack) = 1) => stack' = << >>
                   /\ (last'.outcome \in {"move", "moveHalt"} /\ pushes) =>
                         stack' # << >>]_vars

\* C23 witness: a step has emptied the stack at the end of the input and
\* the machine has accepted by the empty stack; a reset() puts the initial
\* stack symbol back, and fails after setStackAlphabet took the symbol out
\* of the stack alphabet
C23_Witness ==
    /\ kind = "DPDA"
    /\ setterCalls = 0
    /\ last.op = "step"
    /\ stack = << >>
    /\ isHalted /\ isAccepted /\ acceptanceMode = ACCEPT_BY_STACK
    /\ DPDA_reset(Cur).m.stack = <<initialStackSymbol>>
    /\ DPDA_reset(setStackAlphabet(Cur, {"b"})).threw = "Invalid stack string."

---------------------------------------------------------------------------
(* C24: the callbacks of a halt. *)

\* the names of the callbacks among onAccept, onReject and onHalt that the
\* step() being made on the instance fires, in the order it fires them
HaltCallbacks ==
    LET r == IF kind = "DFA" THEN DFA_step(Cur) ELSE DPDA_step(Cur)
        ev == SelectSeq(r.m.events,
                        LAMBDA e : e.name \in {"onAccept", "onReject", "onHalt"})
    IN  [i \in DOMAIN ev |-> ev[i].name]

\* C24: a machine that is halted stays halted until it is reset, so it
\* halts at most once between two resets; the step that halts it fires
\* onAccept when it leaves the machine accepted and onReject otherwise, then
\* onHalt, once each; a step that does not halt the machine fires none of
\* the three.
C24_HaltCallbacks ==
    [][/\ (isHalted /\ ~IsReset) => isHalted'
       /\ IsStep =>
             HaltCallbacks =
                IF ~isHalted /\ isHalted'
                THEN <<IF isAccepted' THEN "onAccept" ELSE "onReject", "onHalt">>
                ELSE << >>]_vars

\* C24 witness: the second step of a machine has applied a transition and
\* halted the machine rejected
C24_Witness ==
    /\ last.op = "step"
    /\ last.outcome = "moveHalt"
    /\ isHalted /\ ~isAccepted
    /\ stepCount = 2

---------------------------------------------------------------------------
(* C25: the step callback. *)

\* the number of onStep callbacks that the step() being made on the
\* instance fires
StepCallbacks ==
    LET r == IF kind = "DFA" THEN DFA_step(Cur) ELSE DPDA_step(Cur)
    IN  Cardinality({i \in DOMAIN r.m.events : r.m.events[i].name = "onStep"})

\* C25: a step of a DFA or a DPDA that applies a transition fires onStep
\* exactly once, also when the halting check after the transition halts the
\* machine in the same step, and a step that applies none fires no onStep.
C25_StepCallback ==
    [][IsStep =>
         StepCallbacks = IF last'.outcome \in {"move", "moveHalt"} THEN 1
                         ELSE 0]_vars

---------------------------------------------------------------------------
(* C28: the arguments of the callbacks. *)

\* C28: every callback that a step fires receives the arguments its slot
\* declares: onStep the four arguments (condition, command, stepCount,
\* cursor), onAccept, onReject and onHalt the three arguments (state,
\* stepCount, cursor), and onPointerChange the new position as its one
\* argument.
C28_CallbackArguments ==
    [][IsStep =>
         LET r == IF kind = "DFA" THEN DFA_step(Cur) ELSE DPDA_step(Cur)
         IN  \A i \in DOMAIN r.m.events :
                LET e == r.m.events[i]
                IN  /\ e.name = "onStep" =>
                          /\ Len(e.args) = 4
                          /\ e.args = <<r.condition, r.command, stepCount',
                                        pointerPosition'>>
                    /\ e.name \in {"onAccept", "onReject", "onHalt"} =>
                          /\ Len(e.args) = 3
                          /\ e.args[2] = stepCount'
                          /\ e.args[3] = pointerPosition'
                          /\ e.args[1] \in States
                    /\ e.name = "onPointerChange" =>
                          /\ Len(e.args) = 1
                          /\ e.args[1] = pointerPosition']_vars

---------------------------------------------------------------------------
(* C26: in every state reachable by step, run, reset and setInputString    *)
(* the cursor lies between 0 and the length of the tape, both included,    *)
(* and a step made from that state never passes to charAt an index at or   *)
(* past the length of the tape.                                            *)

\* the tape indices the next step() would read
TapeReads == IF kind = "DFA" THEN DFA_tapeReads(Cur) ELSE DPDA_tapeReads(Cur)

C26_CursorInTape ==
    /\ 0 <= pointerPosition
    /\ pointerPosition <= length(tape)
    /\ \A i \in TapeReads : 0 <= i /\ i < length(tape)

\* a step has read the last symbol of a non-empty tape and moved the cursor
\* to the length of the tape
C26_Witness ==
    /\ last.op = "step"
    /\ last.outcome \in {"move", "moveHalt"}
    /\ length(tape) > 0
    /\ pointerPosition = length(tape)

---------------------------------------------------------------------------
(* C27: epsilon loops are not detected. A DFA whose current state lies on  *)
(* a cycle of epsilon transitions is not halted and never halts, whatever  *)
(* the input: step() returns false, leaves the cursor where it is and      *)
(* leaves the machine on the cycle, and run(n) returns false with the step *)
(* count increased by exactly n, for every n.                              *)

\* the state reached from state by following n epsilon transitions of tf,
\* Null when a state on the way has none
RECURSIVE EpsilonWalk(_, _, _)
EpsilonWalk(tf, state, n) ==
    IF n = 0 THEN state
    ELSE IF ~hasEpsilonTransition(tf, state) THEN Null
    ELSE EpsilonWalk(tf, getCommand(tf, getEpsilonTransitionCondition(tf, state)).state,
                     n - 1)

\* state lies on a cycle of epsilon transitions of tf
OnEpsilonCycle(tf, state) ==
    \E n \in 1..Cardinality(States) : EpsilonWalk(tf, state, n) = state

C27_EpsilonLoop ==
    (kind = "DFA" /\ OnEpsilonCycle(transitionFunction, currentState)) =>
       /\ isHalted = FALSE
       /\ LET r == DFA_step(Cur)
          IN  /\ r.ret = FALSE
              /\ r.threw = "none"
              /\ r.m.isHalted = FALSE
              /\ r.m.pointerPosition = pointerPosition
              /\ OnEpsilonCycle(r.m.transitionFunction, r.m.currentState)
       /\ \A n \in 0..MaxRunSteps :
             LET r == DFA_run(Cur, n)
             IN  /\ r.ret = FALSE
                 /\ r.m.isHalted = FALSE
                 /\ r.m.stepCount = stepCount + n
                 /\ r.m.pointerPosition = pointerPosition

\* a DFA on an epsilon cycle has been stepped MaxRunSteps times on a
\* non-empty input and still stands at the start of it, not halted
C27_Witness ==
    /\ kind = "DFA"
    /\ OnEpsilonCycle(transitionFunction, currentState)
    /\ last.op = "step"
    /\ stepCount = MaxRunSteps
    /\ tape # << >>
    /\ pointerPosition = 0
    /\ isHalted = FALSE

---------------------------------------------------------------------------
(* C29: a machine without epsilon transitions always halts. From the       *)
(* initial configuration on an input of length n, run(max(1, n)) returns   *)
(* true: some step() among the first max(1, n) reports the machine halted. *)

\* no transition of tf is an epsilon transition
NoEpsilonTransition(tf) ==
    \A c \in DOMAIN tf : c.character # EPSILON_STRING

\* the machine stands in its initial configuration: the state after
\* construction and setInputString, or after reset
InitialConfiguration ==
    /\ last.op \in {"setInputString", "reset"}
    /\ stepCount = 0
    /\ pointerPosition = 0
    /\ currentState = InitialState
    /\ isHalted = FALSE

\* max(1, n)
HaltBound(n) == IF n < 1 THEN 1 ELSE n

\* C29: from the initial configuration of a machine without epsilon
\* transitions on an input of length n, run(max(1, n)) completes, returns
\* true and leaves the machine halted.
C29_AlwaysHalts ==
    (InitialConfiguration /\ NoEpsilonTransition(transitionFunction)) =>
       LET r == IF kind = "DFA" THEN DFA_run(Cur, HaltBound(length(tape)))
                ELSE DPDA_run(Cur, HaltBound(length(tape)))
       IN  /\ r.threw = "none"
           /\ r.ret = TRUE
           /\ r.m.isHalted = TRUE

---------------------------------------------------------------------------
(* C30: the two DFA step implementations agree on machines without epsilon *)
(* transitions. Run to halt from the initial configuration, both halt, in  *)
(* the same current state, with the same cursor and the same accepted      *)
(* flag, after applying the same sequence of transitions; the step count   *)
(* at which the halt is reported is left free.                             *)

\* the transitions applied in a call, from the onStep callbacks it fired:
\* condition, command and the cursor after each
RECURSIVE TransitionsApplied(_)
TransitionsApplied(events) ==
    IF events = << >> THEN << >>
    ELSE LET e == Head(events)
         IN  (IF e.name = "onStep"
              THEN << <<e.this, e.args[1], e.args[3]>> >> ELSE << >>)
             \o TransitionsApplied(Tail(events))

\* a number of steps within which both implementations halt on the tape
RunToHalt == length(tape) + 1

C30_StepVariantsAgree ==
    (kind = "DFA" /\ InitialConfiguration
                  /\ NoEpsilonTransition(transitionFunction)) =>
       LET plain == PlainDFA_run(Cur, RunToHalt)
           aware == DFA_run(Cur, RunToHalt)
       IN  /\ plain.ret = TRUE /\ aware.ret = TRUE
           /\ plain.m.isHalted = TRUE /\ aware.m.isHalted = TRUE
           /\ plain.m.isAccepted = aware.m.isAccepted
           /\ plain.m.currentState = aware.m.currentState
           /\ plain.m.pointerPosition = aware.m.pointerPosition
           /\ TransitionsApplied(plain.m.events)
                 = TransitionsApplied(aware.m.events)

\* a DFA without epsilon transitions has been reset on an input of the
\* greatest length that it reads to the end and accepts: the plain variant
\* reports the halt one step later than the epsilon-aware one
C30_Witness ==
    /\ kind = "DFA"
    /\ InitialConfiguration
    /\ last.op = "reset"
    /\ NoEpsilonTransition(transitionFunction)
    /\ length(tape) = MaxInput
    /\ LET plain == PlainDFA_run(Cur, RunToHalt)
           aware == DFA_run(Cur, RunToHalt)
       IN  /\ aware.m.isAccepted = TRUE
           /\ aware.m.pointerPosition = MaxInput
           /\ Len(TransitionsApplied(aware.m.events)) = MaxInput
           /\ aware.m.stepCount = MaxInput
           /\ plain.m.stepCount = MaxInput + 1

---------------------------------------------------------------------------
(* C31: step() of the DPDA never pops from an empty stack. In every        *)
(* reachable configuration, when the step made from it performs its pop    *)
(* (it fires onStackPop) the stack holds at least one element, and the     *)
(* element popped is defined.                                              *)

\* the pops the step() made on the instance performs: the onStackPop
\* callbacks it fires
StepPops ==
    LET events == DPDA_step(Cur).m.events
    IN  {i \in DOMAIN events : events[i].name = "onStackPop"}

C31_NoPopOnEmpty ==
    kind = "DPDA" =>
       \A i \in StepPops :
          /\ stack # << >>
          /\ DPDA_step(Cur).m.events[i].this # Undefined

---------------------------------------------------------------------------
(* C32: the acceptance mode of a DPDA is set only while the machine is     *)
(* accepted. In every state reached by step, run, reset and                *)
(* setInputString, a machine whose accepted flag is false has the          *)
(* acceptance mode of a fresh instance, null.                              *)

C32_ModeOnlyWhileAccepted ==
    (kind = "DPDA" /\ isAccepted = FALSE) => acceptanceMode = Null

---------------------------------------------------------------------------
(* C33: a step of the DPDA applies a transition only when the condition of *)
(* the transition matches the configuration in its stack field too: the    *)
(* stack field of the applied condition is epsilon or equal to the top of  *)
(* the stack at the start of the step, for symbol-consuming and epsilon    *)
(* transitions alike, so the element the step pops is the one the          *)
(* condition names.                                                        *)

C33_StackFieldMatches ==
    kind = "DPDA" =>
       LET r == DPDA_step(Cur)
       IN  r.outcome \in {"move", "moveHalt", "error"} =>
              /\ \/ r.condition.stackElement = EPSILON_STRING
                 \/ r.condition.stackElement = stackPeek(Cur)
              /\ \A i \in StepPops :
                    r.m.events[i].this = r.condition.stackElement

====
